---- MODULE Spec2Model ----
(***************************************************************************)
(* Wiffle Ball Manager (MLW rules): the half-inning state machine, the     *)
(* game orchestrator, the rotation manager and the season scheduler of     *)
(* src/src/simulation/game_sim.py, src/src/simulation/season_sim.py and    *)
(* src/src/models/game.py.                                                 *)
(*                                                                         *)
(* The module holds one specification per layer of the engine:             *)
(*   SpecHalf    one call of simulate_half_inning, one at-bat per step;    *)
(*   Spec        one game (_simulate_full_game, simulate_game_with_result, *)
(*               Game.play), one half-inning per step;                     *)
(*   SpecSeries  the regular season of play_season with its series and     *)
(*               pitcher rotation, on rosters of several sizes;            *)
(*   SpecSeason  simulate_full_season: the regular season, the playoff     *)
(*               bracket and the returned result.                          *)
(* The season specifications take the innings of a game as one step.       *)
(* The random draws of the code (random.random, random.sample,             *)
(* random.shuffle) are the nondeterministic choices of the actions.        *)
(***************************************************************************)
EXTENDS Integers, Sequences, FiniteSets, TLC

VARIABLES
    \* ---- GameSimulator, half-inning level (game_sim.py:156-218)
    hpc,            \* position in simulate_half_inning: "idle", "loop", "returned"
    outs,           \* self.outs
    bases,          \* self.bases: index 0..2 -> None or a runner marker
    runs_scored,    \* local runs_scored of simulate_half_inning
    batters_faced,  \* local batters_faced
    at_bat,         \* local at_bat: the AtBatResult of the last plate appearance
    is_home_batting,\* self.is_home_batting
    \* ---- GameSimulator, game level (game_sim.py:22-154)
    pc,             \* position in the game: see the actions
    caller,         \* who runs the game: "Game.play", "play_season", "play_series"
    home_team,      \* self.home_team (a team of Teams)
    away_team,      \* self.away_team
    inning,         \* self.inning
    away_score,     \* self.away_score
    home_score,     \* self.home_score
    game_over,      \* self.game_over
    current_pitcher_home, \* a player <<team, k>> or None
    current_pitcher_away,
    home_lineup,    \* self.home_lineup: the players sampled, as a set
    away_lineup,
    winner,         \* "winner" of the result dict of simulate_game_with_result
    result,         \* Game.result: a GameResult or None
    \* ---- Team and Player records (models/team.py, models/player.py)
    active_roster,  \* team -> sequence of velocity + control, one entry per player
    wins, losses, ties,
    team_runs_scored, team_runs_allowed,
    playoff_wins, playoff_losses,
    pitching_stats, \* player -> [gp, gs, ip, w, l, r, er] of PitchingStats
    batting_gp,     \* player -> batting_stats.gp
    batting_pa,     \* player -> batting_stats.pa
    \* ---- SeasonSimulator, regular season (season_sim.py:12-132)
    schedule,       \* self.schedule: sequence of <<home, away>>
    series_schedule,\* self.series_schedule: sequence of series, each 3 games
    series_pitcher_usage, \* series number -> player -> games pitched
    results,        \* self.results: the result dicts in play order
    series_num,     \* loop variables of play_season
    game_num,
    \* ---- SeasonSimulator, playoffs (season_sim.py:148-251, 787-798)
    teams,          \* self.teams: sequence of teams
    regular_season_standings,
    final_teams,    \* play_playoffs: the semifinal winners
    series_name,    \* play_series arguments and locals
    team1, team2, best_of, team1_wins, team2_wins, series_game_num,
    champion,       \* play_playoffs: the winner of the championship series
    season_result,  \* the dict simulate_full_season returns
    \* ---- trades (simulation/trading.py, models/team.py:25-47)
    rosters,        \* team -> its active_roster and reserve_roster as lists of
                    \* players; followed for trades only, empty elsewhere
    offer,          \* the TradeOffer handed to execute_trade
    executed,       \* execute_trade: "idle", "called", or what it returned
    player_team,    \* player -> player.team: the team that holds the player, or None
    last_call,      \* the last add_player or remove_player call and what it returned
    \* ---- a second run of play_season on the same teams and the same draws,
    \* ---- whose player objects lie at other addresses (season_sim.py:50-92)
    object_id,      \* player -> id(player) in the second run
    run2_usage,     \* its series_pitcher_usage: series number -> dict id -> starts
    run2_pitcher_home, \* the pitchers it selects for the current game
    run2_pitcher_away,
    \* ---- AtBatProbabilityCalculator (simulation/probability.py:34-129)
    p_strikeout_raw, \* sigmoid(strikeout_input), in units of 1/Unit
    p_walk_raw,      \* sigmoid(walk_input)
    p_hit_raw,       \* sigmoid(hit_input)
    p_homerun_raw,   \* sigmoid(homerun_input)
    probabilities,   \* the dict calculate_outcome_probabilities returned
    \* ---- one attribute of one player and the code that writes it
    \* ---- (models/player.py:199-234, player_dev.py, development_events.py)
    attribute,      \* the value of the attribute, e.g. player.velocity
    last_write,     \* the code that wrote it last, or "ValueError"
    velocity,       \* player -> player.velocity
    \* ---- conduct_one_round_draft (season_sim.py:563-613, 707-723)
    draft_pc,       \* "idle", "called", "picking", "done"
    draft_order,    \* sorted(self.teams, key=lambda t: t.wins)
    draft_prospects, \* the prospects generated, one per team
    pick_num,       \* the picks made so far
    player_value,   \* player -> calculate_player_value(player)
    \* ---- one counter (hits) of one player's stat lines over the seasons
    \* ---- (models/player.py:109-131, 272-291) and the season number
    batting_stats,  \* player.batting_stats: the line of the current season
    season_batting, \* career_stats.season_batting: season number -> archived line
    career_batting, \* career_stats.career_batting: the career totals
    seasons_played, \* player.seasons_played
    current_season, \* SeasonSimulator.current_season
    \* ---- the counters update_stats writes (game_sim.py:339-390)
    batter_line,    \* batter.batting_stats
    pitcher_line    \* pitcher.pitching_stats

halfVars == <<hpc, outs, bases, runs_scored, batters_faced, at_bat, is_home_batting>>

gameVars == <<pc, caller, home_team, away_team, inning, away_score, home_score,
              game_over, current_pitcher_home, current_pitcher_away,
              home_lineup, away_lineup, winner, result>>

recordVars == <<wins, losses, ties, team_runs_scored, team_runs_allowed,
                pitching_stats, batting_gp, batting_pa>>

playoffRecordVars == <<playoff_wins, playoff_losses>>

scheduleVars == <<schedule, series_schedule, series_pitcher_usage, results,
                  series_num, game_num>>

playoffVars == <<teams, regular_season_standings, final_teams, series_name,
                 team1, team2, best_of, team1_wins, team2_wins, series_game_num,
                 champion, season_result>>

seasonVars == <<scheduleVars, playoffVars>>

tradeVars == <<rosters, offer, executed, player_team, last_call>>

run2Vars == <<object_id, run2_usage, run2_pitcher_home, run2_pitcher_away>>

probVars == <<p_strikeout_raw, p_walk_raw, p_hit_raw, p_homerun_raw, probabilities>>

devVars == <<attribute, last_write, velocity>>

draftVars == <<draft_pc, draft_order, draft_prospects, pick_num, player_value>>

careerVars == <<batting_stats, season_batting, career_batting, seasons_played,
                current_season>>

statVars == <<batter_line, pitcher_line>>

vars == <<halfVars, gameVars, active_roster, recordVars, playoffRecordVars, seasonVars,
          tradeVars, run2Vars, probVars, devVars, draftVars, careerVars, statVars>>

\* Python's None, for an Optional[Player] or Optional[Team] (players and teams
\* are positive numbers)
None == 0

\* an empty base: None in self.bases
NoRunner == "None"

\* ------------------------------------------------------------------------
\* Program constants
\* ------------------------------------------------------------------------
\* a safety limit that lets one more batter through
max_batters_OneMore == 30 + 1

\* the safety limit of simulate_half_inning (game_sim.py:164)
max_batters == 30

\* the mercy rule: 6 runs in a half-inning before inning 3 (game_sim.py:48, 58)
MercyRuns == 6

MercyInning == 3

\* regulation length: the game can end once inning >= 3 (game_sim.py:63)
RegulationInnings == 3

\* Team.add_player: at most 6 active players (team.py:27)
MaxActiveRoster == 6

\* ------------------------------------------------------------------------
\* Bounds of the model
\* ------------------------------------------------------------------------
\* teams of the league
NumTeams == 4

\* runs one half-inning returns, in the specifications that take a
\* half-inning as one step
MaxHalfRuns == 8

\* last inning the model plays (the code has no cap)
MaxInning == 4

Teams == 1..NumTeams

\* the k-th player of team t's active roster, as a number
Player(t, k) == t * 10 + k

team_of(p) == p \div 10

roster_index(p) == p % 10

\* the players of a team's active roster
RosterOf(t) == {Player(t, k) : k \in 1..Len(active_roster[t])}

\* every player of the league
Rostered == UNION {RosterOf(t) : t \in Teams}

\* velocity + control of a player
skill(p) == active_roster[team_of(p)][roster_index(p)]

\* the best pitcher taken to be the first player of the roster
best_pitcher_First(t) == Player(t, 1)

\* max(team.active_roster, key=lambda p: p.velocity + p.control):
\* the first player of the roster with the highest key
best_pitcher(t) ==
    CHOOSE p \in RosterOf(t) :
        /\ \A q \in RosterOf(t) : skill(q) <= skill(p)
        /\ \A q \in RosterOf(t) : skill(q) = skill(p) => roster_index(p) <= roster_index(q)

\* ------------------------------------------------------------------------
\* AtBatResult (game_sim.py:9-17)
\* ------------------------------------------------------------------------
AtBatResult(outcome, details, runs, adv) ==
    [outcome |-> outcome, details |-> details, runs_scored |-> runs, bases_advanced |-> adv]

NoAtBat == AtBatResult("none", "", 0, 0)

BaseIdx == 0..2

BaseStates == [BaseIdx -> {NoRunner, "batter"}]

EmptyBases == [i \in BaseIdx |-> NoRunner]

\* count_runners: runners on base
count_runners(b) == Cardinality({i \in BaseIdx : b[i] # NoRunner})

\* count_runners_that_will_score: runners whose final base is 3 or more
count_runners_that_will_score(b, bases_advanced) ==
    Cardinality({i \in BaseIdx : b[i] # NoRunner /\ i + bases_advanced >= 3})

Min(a, b) == IF a < b THEN a ELSE b

\* advance_runners: the new base state and the runs the play scores.
\* Every runner moves from index i to i + n; an index of 3 or more scores.
\* The batter is written last, on min(n - 1, 2), unless n = 4 (the batter scores).
batter_base_OffByOne(n) == Min(n, 2)

batter_base(n) == Min(n - 1, 2)

advance_runners(b, n) ==
    LET moved == [p \in BaseIdx |->
                    IF \E i \in BaseIdx : b[i] # NoRunner /\ i + n = p
                    THEN b[CHOOSE i \in BaseIdx : b[i] # NoRunner /\ i + n = p]
                    ELSE NoRunner]
        fromRunners == Cardinality({i \in BaseIdx : b[i] # NoRunner /\ i + n >= 3})
    IN  IF n >= 1
        THEN IF n = 4
             THEN [runs_scored |-> fromRunners + 1, new_bases |-> moved]
             ELSE [runs_scored |-> fromRunners,
                   new_bases |-> [moved EXCEPT ![batter_base(n)] = "batter"]]
        ELSE [runs_scored |-> fromRunners, new_bases |-> moved]

\* perform_fielding_check: every result the three random rolls can give.
\*   no check (roll above fielding_chance): the hit stands, or a ground out;
\*   check made: an out;
\*   check missed: the hit stands, with a 30% chance of an error that adds a
\*   base (when below 4), or, with no hit pending, a single on the mistake.
perform_fielding_check(play_type, hit_result) ==
    LET made == CASE play_type = "ground_ball" -> "Out - fielded by infield"
                  [] play_type = "fly_ball"    -> "Out - caught by outfield"
                  [] play_type = "line_drive"  -> "Out - snagged on the line"
                  [] OTHER                     -> "Out - fielded"
        withError ==
            IF hit_result.bases_advanced < 4
            THEN [hit_result EXCEPT !.bases_advanced = @ + 1,
                                    !.details = @ \o " (fielding error)"]
            ELSE hit_result
    IN  IF hit_result = NoAtBat
        THEN { AtBatResult("out", "Ground out", 0, 0),
               AtBatResult("out", made, 0, 0),
               AtBatResult("hit", "Single on fielding mistake", 0, 1) }
        ELSE { hit_result,
               AtBatResult("out", made, 0, 0),
               withError }

\* determine_hit_type: a home run counts the runners on base plus the batter
\* in runs_scored; the other hits go through the fielding check.
determine_hit_type(b) ==
    { AtBatResult("hit", "Home run", count_runners(b) + 1, 4) }
    \cup perform_fielding_check("fly_ball", AtBatResult("hit", "Triple", 0, 3))
    \cup perform_fielding_check("line_drive", AtBatResult("hit", "Double", 0, 2))
    \cup perform_fielding_check("ground_ball", AtBatResult("hit", "Single", 0, 1))

\* the speed limit of simulate_at_bat (line 223)
speed_limit == 75

\* simulate_at_bat that lets a pitcher above the speed limit pitch
simulate_at_bat_NoSpeedLimit(b, p) ==
    { AtBatResult("walk", "Walk", 0, 0),
      AtBatResult("hbp", "Hit by pitch", 0, 0),
      AtBatResult("strikeout", "Strikeout", 0, 0) }
    \cup perform_fielding_check("ground_ball", NoAtBat)
    \cup determine_hit_type(b)

\* simulate_at_bat: every AtBatResult one plate appearance against the
\* pitcher p can return
simulate_at_bat(b, p) ==
    IF velocity[p] > speed_limit
    THEN { AtBatResult("walk", "Speed limit violation - automatic ball", 0, 0) }
    ELSE { AtBatResult("walk", "Walk", 0, 0),
           AtBatResult("hbp", "Hit by pitch", 0, 0),
           AtBatResult("strikeout", "Strikeout", 0, 0) }
         \cup perform_fielding_check("ground_ball", NoAtBat)
         \cup determine_hit_type(b)

\* ------------------------------------------------------------------------
\* Construction
\* ------------------------------------------------------------------------
\* PitchingStats(): the counters the engine writes at game level and the
\* pitch count pt (models/player.py:70-90); ip counts innings
NewPitchingStats ==
    [gp |-> 0, gs |-> 0, ip |-> 0, w |-> 0, l |-> 0, r |-> 0, er |-> 0, pt |-> 0]

\* ------------------------------------------------------------------------
\* Rosters as lists of players (models/team.py) and trade offers
\* (simulation/trading.py)
\* ------------------------------------------------------------------------
\* add_player: "len(self.active_roster) < 6" (team.py:27)
ActiveLimit == 6

\* add_player: "len(self.reserve_roster) < 2" (team.py:31)
ReserveLimit == 2

\* a Team with no player on either list
NoRosters == [active_roster |-> <<>>, reserve_roster |-> <<>>]

\* no TradeOffer
NoOffer ==
    [team_a |-> None, team_b |-> None, players_a |-> <<>>, players_b |-> <<>>,
     approved |-> FALSE]

\* every player the rosters of a team can hold
PlayerObjects == {Player(t, k) : t \in Teams, k \in 1..(ActiveLimit + ReserveLimit)}

\* addresses of the player objects: distinct objects have distinct ids
FirstIds == [p \in PlayerObjects |-> 1000 + p]

\* three ways the player objects can lie in memory: in roster order, in the
\* opposite order, scattered
ObjectIds ==
    { FirstIds,
      [p \in PlayerObjects |-> 2000 - p],
      [p \in PlayerObjects |-> 1000 + ((p * 7) % 101)] }

\* 1.0: probabilities are held in hundredths of a percent
Unit == 10000

\* Player(name): every attribute has its default
DefaultPlayer ==
    /\ attribute = 50
    /\ last_write = "Player"
    /\ velocity = [p \in Rostered |-> 50]

\* BattingStats(): the hits counter of a stat line
NewBattingStats == [h |-> 0]

\* a new player in season 1 of a new simulator: nothing archived
NewCareer ==
    /\ batting_stats = NewBattingStats
    /\ season_batting = <<>>
    /\ career_batting = NewBattingStats
    /\ seasons_played = <<>>
    /\ current_season = 1

\* BattingStats() and PitchingStats(): the counters update_stats writes
\* (models/player.py:9-21, 70-90)
NewBatterLine ==
    [pa |-> 0, ab |-> 0, h |-> 0, doubles |-> 0, triples |-> 0, hr |-> 0,
     rbi |-> 0, bb |-> 0, hbp |-> 0, k |-> 0]

NewPitcherLine == [pt |-> 0, h |-> 0, bb |-> 0, hbp |-> 0, k |-> 0, st |-> 0]

\* two players whose statistics are new
NewStatLines ==
    /\ batter_line = NewBatterLine
    /\ pitcher_line = NewPitcherLine

\* no draft is under way; every player has the same value
NoDraft ==
    /\ draft_pc = "idle"
    /\ draft_order = <<>>
    /\ draft_prospects = <<>>
    /\ pick_num = 0
    /\ player_value = [p \in PlayerObjects |-> 2]

\* the dict before calculate_outcome_probabilities has returned
NoProbabilities ==
    [strikeout |-> 0, walk |-> 0, ball_in_play |-> 0, homerun |-> 0, out |-> 0]

\* no at-bat probabilities are being calculated
NoAtBatProbabilities ==
    /\ p_strikeout_raw = Unit \div 2
    /\ p_walk_raw = Unit \div 2
    /\ p_hit_raw = Unit \div 2
    /\ p_homerun_raw = Unit \div 2
    /\ probabilities = NoProbabilities

\* the second run has not started
InitSecondRun ==
    /\ run2_usage = <<>>
    /\ run2_pitcher_home = None
    /\ run2_pitcher_away = None

\* no call of add_player or remove_player yet
NoCall == [method |-> "none", player |-> None, active |-> FALSE, returned |-> FALSE]

\* no trade is under way
NoTrade ==
    /\ rosters = [t \in Teams |-> NoRosters]
    /\ offer = NoOffer
    /\ executed = "idle"
    /\ player_team = [p \in PlayerObjects |-> None]
    /\ last_call = NoCall

\* Team(name): zeroed records
InitRecords ==
    /\ wins = [t \in Teams |-> 0]
    /\ losses = [t \in Teams |-> 0]
    /\ ties = [t \in Teams |-> 0]
    /\ team_runs_scored = [t \in Teams |-> 0]
    /\ team_runs_allowed = [t \in Teams |-> 0]
    /\ playoff_wins = [t \in Teams |-> 0]
    /\ playoff_losses = [t \in Teams |-> 0]
    /\ pitching_stats = [p \in Rostered |-> NewPitchingStats]
    /\ batting_gp = [p \in Rostered |-> 0]
    /\ batting_pa = [p \in Rostered |-> 0]

\* GameResult (models/game.py:10-18); Game.result is None until play() sets it
GameResult(home, away, hs, as, w, l, tie) ==
    [home_team |-> home, away_team |-> away, home_score |-> hs, away_score |-> as,
     winner |-> w, loser |-> l, is_tie |-> tie, is_set |-> TRUE]

NoGameResult ==
    [home_team |-> None, away_team |-> None, home_score |-> 0, away_score |-> 0,
     winner |-> None, loser |-> None, is_tie |-> FALSE, is_set |-> FALSE]

\* a roster of three players whose best pitcher is not the first of the list
FixtureRoster == <<110, 130, 120>>

\* SeasonSimulator.__init__ (season_sim.py:12-21) on a league of the teams
\* 1..m
InitSeasonSimulator(m) ==
    /\ teams = [i \in 1..m |-> i]
    /\ schedule = <<>>
    /\ series_schedule = <<>>
    /\ series_pitcher_usage = <<>>
    /\ results = <<>>
    /\ series_num = 0
    /\ game_num = 0
    /\ regular_season_standings = <<>>
    /\ final_teams = <<>>
    /\ series_name = ""
    /\ team1 = None
    /\ team2 = None
    /\ best_of = 0
    /\ team1_wins = 0
    /\ team2_wins = 0
    /\ series_game_num = 0
    /\ champion = None
    /\ season_result = [champion |-> None, standings |-> <<>>]

\* GameSimulator.__init__ (game_sim.py:22-35)
InitSimulator(home, away) ==
    /\ home_team = home
    /\ away_team = away
    /\ current_pitcher_home = None
    /\ current_pitcher_away = None
    /\ home_score = 0
    /\ away_score = 0
    /\ inning = 1
    /\ is_home_batting = FALSE
    /\ outs = 0
    /\ bases = EmptyBases
    /\ game_over = FALSE
    /\ home_lineup = {}
    /\ away_lineup = {}

\* ------------------------------------------------------------------------
\* simulate_half_inning, one at-bat per step
\* ------------------------------------------------------------------------
\* lines 158-165: reset of the half-inning state
StartHalfInning ==
    /\ hpc = "idle"
    /\ hpc' = "loop"
    /\ outs' = 0
    /\ bases' = EmptyBases
    /\ runs_scored' = 0
    /\ batters_faced' = 0
    /\ UNCHANGED <<at_bat, is_home_batting>>
    /\ UNCHANGED <<gameVars, active_roster, tradeVars, run2Vars, probVars, devVars, draftVars, careerVars, statVars, recordVars, playoffRecordVars, seasonVars>>

\* line 162: the pitcher of the fielding side
pitcher == IF is_home_batting THEN current_pitcher_away ELSE current_pitcher_home

\* ApplyAtBat with the out counted twice
ApplyAtBat_OutTwice(ab, pre_outs) ==
    LET adv == IF ab.outcome = "hit" THEN advance_runners(bases, ab.bases_advanced)
               ELSE advance_runners(bases, 1)
    IN  /\ at_bat' = ab
        /\ IF ab.outcome = "hit"
           THEN /\ runs_scored' = runs_scored + ab.runs_scored + adv.runs_scored
                /\ bases' = adv.new_bases
                /\ outs' = pre_outs
           ELSE IF ab.outcome \in {"walk", "hbp"}
           THEN /\ runs_scored' = runs_scored + adv.runs_scored
                /\ bases' = adv.new_bases
                /\ outs' = pre_outs
           ELSE /\ outs' = pre_outs + 2
                /\ UNCHANGED <<runs_scored, bases>>
        /\ batters_faced' = batters_faced + 1

\* the effect of one AtBatResult on outs, bases and runs (lines 194-210);
\* pre_outs is self.outs as the at-bat left it
ApplyAtBat(ab, pre_outs) ==
    LET adv == IF ab.outcome = "hit" THEN advance_runners(bases, ab.bases_advanced)
               ELSE advance_runners(bases, 1)
    IN  /\ at_bat' = ab
        /\ IF ab.outcome = "hit"
           THEN /\ runs_scored' = runs_scored + ab.runs_scored + adv.runs_scored
                /\ bases' = adv.new_bases
                /\ outs' = pre_outs
           ELSE IF ab.outcome \in {"walk", "hbp"}
           THEN /\ runs_scored' = runs_scored + adv.runs_scored
                /\ bases' = adv.new_bases
                /\ outs' = pre_outs
           ELSE /\ outs' = pre_outs + 1
                /\ UNCHANGED <<runs_scored, bases>>
        /\ batters_faced' = batters_faced + 1

\* line 161: the lineup of the batting side
lineup == IF is_home_batting THEN home_lineup ELSE away_lineup

\* line 174: lineup[batter_index % len(lineup)], where batter_index counts
\* the batters faced; the lineup is taken in roster order, one of the orders
\* random.sample gives
batter ==
    CHOOSE b \in lineup :
        Cardinality({q \in lineup : roster_index(q) < roster_index(b)})
            = batters_faced % Cardinality(lineup)

\* update_stats that counts a plate appearance only with an at-bat
update_stats_AtBatsOnly(ab, b, p) ==
    /\ batting_pa' = [batting_pa EXCEPT
                         ![b] = IF ab.outcome \in {"walk", "hbp"} THEN @ ELSE @ + 1]
    /\ pitching_stats' = [pitching_stats EXCEPT ![p].pt = @ + 1]

\* update_stats (lines 339-390): the plate appearance of the batter and the
\* pitch of the pitcher, counted for every outcome; its other counters are
\* followed by update_batter_stats and update_pitcher_stats
update_stats(ab, b, p) ==
    /\ batting_pa' = [batting_pa EXCEPT ![b] = @ + 1]
    /\ pitching_stats' = [pitching_stats EXCEPT ![p].pt = @ + 1]

\* one iteration of the while loop (lines 167-210)
HalfInningStep ==
    /\ hpc = "loop"
    /\ outs < 3
    /\ IF batters_faced >= max_batters
       THEN /\ outs' = 3
            /\ UNCHANGED <<bases, runs_scored, batters_faced, at_bat>>
            /\ UNCHANGED <<pitching_stats, batting_pa>>
       ELSE IF pitcher # None
       THEN \E ab \in simulate_at_bat(bases, pitcher) :
                /\ update_stats(ab, batter, pitcher)
                /\ ApplyAtBat(ab, outs)
       ELSE /\ ApplyAtBat(AtBatResult("out", "No pitcher available", 0, 0), outs + 1)
            /\ UNCHANGED <<pitching_stats, batting_pa>>
    /\ UNCHANGED <<hpc, is_home_batting>>
    /\ UNCHANGED <<gameVars, active_roster, tradeVars, run2Vars, probVars, devVars, draftVars, careerVars, statVars, playoffRecordVars, seasonVars>>
    /\ UNCHANGED <<wins, losses, ties, team_runs_scored, team_runs_allowed, batting_gp>>

\* lines 212-216: the runs of the half-inning are charged to the pitcher
charge_runs(stats, p, runs) ==
    IF p # None /\ runs > 0
    THEN [stats EXCEPT ![p].r = @ + runs, ![p].er = @ + runs]
    ELSE stats

\* loop exit and return (lines 212-218)
HalfInningReturn ==
    /\ hpc = "loop"
    /\ ~(outs < 3)
    /\ hpc' = "returned"
    /\ pitching_stats' = charge_runs(pitching_stats, pitcher, runs_scored)
    /\ UNCHANGED <<outs, bases, runs_scored, batters_faced, at_bat, is_home_batting>>
    /\ UNCHANGED <<gameVars, active_roster, tradeVars, run2Vars, probVars, devVars, draftVars, careerVars, statVars, playoffRecordVars, seasonVars>>
    /\ UNCHANGED <<wins, losses, ties, team_runs_scored, team_runs_allowed, batting_gp, batting_pa>>

\* a set-up simulator (setup_game has chosen the best pitchers) about to play
\* one half-inning, for the away or the home side; the players throw at the
\* speed limit or just above it
InitHalf ==
    /\ active_roster = [t \in Teams |-> FixtureRoster]
    /\ InitRecords
    /\ InitSecondRun
    /\ NoAtBatProbabilities
    /\ attribute = 50
    /\ last_write = "Player"
    /\ \E v \in {speed_limit, speed_limit + 1} : velocity = [p \in Rostered |-> v]
    /\ NoDraft
    /\ NewCareer
    /\ NewStatLines
    /\ object_id = FirstIds
    /\ NoTrade
    /\ InitSeasonSimulator(NumTeams)
    /\ home_team = 1
    /\ away_team = 2
    /\ current_pitcher_home = best_pitcher(1)
    /\ current_pitcher_away = best_pitcher(2)
    /\ home_score = 0
    /\ away_score = 0
    /\ inning = 1
    /\ game_over = FALSE
    /\ home_lineup = RosterOf(1)
    /\ away_lineup = RosterOf(2)
    /\ outs = 0
    /\ bases = EmptyBases
    /\ is_home_batting \in BOOLEAN
    /\ pc = IF is_home_batting THEN "bottom" ELSE "top"
    /\ caller = "Game.play"
    /\ winner = None
    /\ result = NoGameResult
    /\ hpc = "idle"
    /\ runs_scored = 0
    /\ batters_faced = 0
    /\ at_bat = NoAtBat

NextHalf ==
    \/ StartHalfInning
    \/ HalfInningStep
    \/ HalfInningReturn

SpecHalf == InitHalf /\ [][NextHalf]_vars

\* simulate_half_inning runs on: the loop is sequential code that nothing
\* suspends.  The fair specification follows the top of the first inning, the
\* half-inning every game starts with; the bottom half runs the same loop
InitHalfTop == InitHalf /\ is_home_batting = FALSE

SpecHalfLive == InitHalfTop /\ [][NextHalf]_vars /\ WF_vars(NextHalf)

\* ------------------------------------------------------------------------
\* One game, one half-inning per step
\* ------------------------------------------------------------------------
\* The runs a half-inning returns: simulate_half_inning returns every total
\* from 0 up (SpecHalf: one run per walk once the bases are loaded).
HalfInningRuns == 0..MaxHalfRuns

\* one whole call of simulate_half_inning that returns `runs`: outs is 3 at
\* the return (C2) and the runs are charged to the pitcher of the fielding
\* side. self.bases, which the next half-inning resets before anything reads
\* it, and the locals of the call are followed in SpecHalf, not here.
simulate_half_inning(home_batting, runs) ==
    /\ is_home_batting' = home_batting
    /\ hpc' = "returned"
    /\ outs' = 3
    /\ runs_scored' = runs
    /\ pitching_stats' =
          charge_runs(pitching_stats,
                      IF home_batting THEN current_pitcher_away ELSE current_pitcher_home,
                      runs)
    /\ UNCHANGED <<bases, batters_faced, at_bat>>

\* play_season:114-119 and play_series:208-212: the season sets the starting
\* pitchers before the game; in the regular season get_available_pitcher may
\* return any player of the roster, in the playoffs the best one
SetPitchers ==
    /\ pc = "new"
    /\ caller \in {"play_season", "play_series"}
    /\ IF caller = "play_series"
       THEN /\ current_pitcher_home' = best_pitcher(home_team)
            /\ current_pitcher_away' = best_pitcher(away_team)
       ELSE /\ current_pitcher_home' \in RosterOf(home_team)
            /\ current_pitcher_away' \in RosterOf(away_team)
    /\ pc' = "pitchers_set"
    /\ UNCHANGED <<caller, home_team, away_team, inning, away_score, home_score,
                   game_over, home_lineup, away_lineup, winner, result>>
    /\ UNCHANGED <<halfVars, active_roster, tradeVars, run2Vars, probVars, devVars, draftVars, careerVars, statVars, recordVars, playoffRecordVars, seasonVars>>

\* MLWRules.max_batters and min_batters
MLWRules_max_batters == 5
MLWRules_min_batters == 3

\* MLWRules.validate_lineup on a lineup of n batters
validate_lineup(n) == ~(n < MLWRules_min_batters) /\ ~(n > MLWRules_max_batters)

\* random.sample(roster, min(5, len(roster))): the lineups a roster can give
lineups(t) ==
    {l \in SUBSET RosterOf(t) : Cardinality(l) = Min(5, Len(active_roster[t]))}

\* setup_game that credits the innings to the home starter only
setup_game_HomeInningsOnly ==
    /\ \/ pc = "new" /\ caller = "Game.play"
       \/ pc = "pitchers_set"
    /\ LET ph == IF current_pitcher_home = None THEN best_pitcher(home_team)
                 ELSE current_pitcher_home
           pa == IF current_pitcher_away = None THEN best_pitcher(away_team)
                 ELSE current_pitcher_away
       IN  /\ current_pitcher_home' = ph
           /\ current_pitcher_away' = pa
           /\ \E hl \in lineups(home_team), al \in lineups(away_team) :
                 /\ home_lineup' = hl
                 /\ away_lineup' = al
                 /\ batting_gp' = [p \in DOMAIN batting_gp |->
                                     IF p \in hl \cup al THEN batting_gp[p] + 1
                                     ELSE batting_gp[p]]
           /\ pitching_stats' =
                 [p \in DOMAIN pitching_stats |->
                    IF p = ph
                    THEN [pitching_stats[p] EXCEPT !.gp = @ + 1, !.gs = @ + 1, !.ip = @ + 3]
                    ELSE IF p = pa
                    THEN [pitching_stats[p] EXCEPT !.gp = @ + 1, !.gs = @ + 1]
                    ELSE pitching_stats[p]]
    /\ pc' = "top"
    /\ UNCHANGED <<caller, home_team, away_team, inning, away_score, home_score,
                   game_over, winner, result>>
    /\ UNCHANGED <<halfVars, active_roster, tradeVars, run2Vars, probVars, devVars, draftVars, careerVars, statVars, playoffRecordVars, seasonVars>>
    /\ UNCHANGED <<wins, losses, ties, team_runs_scored, team_runs_allowed, batting_pa>>

\* setup_game (lines 123-154)
setup_game ==
    /\ \/ pc = "new" /\ caller = "Game.play"
       \/ pc = "pitchers_set"
    /\ LET ph == IF current_pitcher_home = None THEN best_pitcher(home_team)
                 ELSE current_pitcher_home
           pa == IF current_pitcher_away = None THEN best_pitcher(away_team)
                 ELSE current_pitcher_away
       IN  /\ current_pitcher_home' = ph
           /\ current_pitcher_away' = pa
           /\ \E hl \in lineups(home_team), al \in lineups(away_team) :
                 /\ home_lineup' = hl
                 /\ away_lineup' = al
                 /\ batting_gp' = [p \in DOMAIN batting_gp |->
                                     IF p \in hl \cup al THEN batting_gp[p] + 1
                                     ELSE batting_gp[p]]
           /\ pitching_stats' =
                 [p \in DOMAIN pitching_stats |->
                    IF p \in {ph, pa}
                    THEN [pitching_stats[p] EXCEPT !.gp = @ + 1, !.gs = @ + 1, !.ip = @ + 3]
                    ELSE pitching_stats[p]]
    /\ pc' = "top"
    /\ UNCHANGED <<caller, home_team, away_team, inning, away_score, home_score,
                   game_over, winner, result>>
    /\ UNCHANGED <<halfVars, active_roster, tradeVars, run2Vars, probVars, devVars, draftVars, careerVars, statVars, playoffRecordVars, seasonVars>>
    /\ UNCHANGED <<wins, losses, ties, team_runs_scored, team_runs_allowed, batting_pa>>

\* MLWRules.__init__ (mlw_rules.py:15-16)
mercy_rule_runs == 6

mercy_rule_innings == 3

\* MLWRules.check_mercy_rule (mlw_rules.py:39-41)
check_mercy_rule(inn, runs) == inn < mercy_rule_innings /\ runs >= mercy_rule_runs

\* a mercy rule that still applies in inning 3
mercy_ThroughThird(inn, runs) == inn <= MercyInning /\ runs >= MercyRuns

\* the mercy rule of lines 48 and 58
mercy_StrictlyMore(inn, runs) == inn < MercyInning /\ runs > MercyRuns

mercy(inn, runs) == inn < MercyInning /\ runs >= MercyRuns

\* a game that is over after regulation whatever the score
decided_AfterRegulation(inn, hs, as) == inn >= RegulationInnings

\* lines 63-68: the game is decided after the home half of inning 3 or later
decided_HomeAheadOnly(inn, hs, as) == inn >= RegulationInnings /\ hs > as

decided(inn, hs, as) ==
    \/ inn >= RegulationInnings /\ hs > as
    \/ inn >= RegulationInnings /\ as > hs

\* top of the inning (lines 42-50)
AwayHalf ==
    /\ pc = "top"
    /\ ~game_over
    /\ \E runs \in HalfInningRuns :
          /\ simulate_half_inning(FALSE, runs)
          /\ away_score' = away_score + runs
          /\ IF mercy(inning, runs)
             THEN game_over' = TRUE /\ pc' = "game_returned"
             ELSE game_over' = game_over /\ pc' = "bottom"
    /\ UNCHANGED <<caller, home_team, away_team, inning, home_score,
                   current_pitcher_home, current_pitcher_away,
                   home_lineup, away_lineup, winner, result>>
    /\ UNCHANGED <<active_roster, tradeVars, run2Vars, probVars, devVars, draftVars, careerVars, statVars, playoffRecordVars, seasonVars>>
    /\ UNCHANGED <<wins, losses, ties, team_runs_scored, team_runs_allowed, batting_gp, batting_pa>>

\* bottom of the inning and the end of the loop body (lines 52-71); the
\* model plays no inning after MaxInning
HomeHalf ==
    /\ pc = "bottom"
    /\ \E runs \in HalfInningRuns :
          /\ simulate_half_inning(TRUE, runs)
          /\ home_score' = home_score + runs
          /\ IF mercy(inning, runs) \/ decided(inning, home_score + runs, away_score)
             THEN game_over' = TRUE /\ pc' = "game_returned" /\ inning' = inning
             ELSE /\ inning < MaxInning
                  /\ game_over' = game_over /\ pc' = "top" /\ inning' = inning + 1
    /\ UNCHANGED <<caller, home_team, away_team, away_score,
                   current_pitcher_home, current_pitcher_away,
                   home_lineup, away_lineup, winner, result>>
    /\ UNCHANGED <<active_roster, tradeVars, run2Vars, probVars, devVars, draftVars, careerVars, statVars, playoffRecordVars, seasonVars>>
    /\ UNCHANGED <<wins, losses, ties, team_runs_scored, team_runs_allowed, batting_gp, batting_pa>>

credit(stats, p, field) ==
    IF p = None THEN stats
    ELSE IF field = "w" THEN [stats EXCEPT ![p].w = @ + 1]
    ELSE [stats EXCEPT ![p].l = @ + 1]

\* simulate_game_with_result with a tie credited to the home side
RecordResult_TieToHome ==
    /\ pc = "game_returned"
    /\ caller \in {"Game.play", "play_season"}
    /\ LET h == home_team
           a == away_team
       IN  IF home_score >= away_score
           THEN /\ winner' = h
                /\ wins' = [wins EXCEPT ![h] = @ + 1]
                /\ losses' = [losses EXCEPT ![a] = @ + 1]
                /\ ties' = ties
                /\ pitching_stats' =
                      credit(credit(pitching_stats, current_pitcher_home, "w"),
                             current_pitcher_away, "l")
           ELSE /\ winner' = a
                /\ wins' = [wins EXCEPT ![a] = @ + 1]
                /\ losses' = [losses EXCEPT ![h] = @ + 1]
                /\ ties' = ties
                /\ pitching_stats' =
                      credit(credit(pitching_stats, current_pitcher_away, "w"),
                             current_pitcher_home, "l")
    /\ team_runs_scored' = [team_runs_scored EXCEPT ![home_team] = @ + home_score,
                                                    ![away_team] = @ + away_score]
    /\ team_runs_allowed' = [team_runs_allowed EXCEPT ![home_team] = @ + away_score,
                                                      ![away_team] = @ + home_score]
    /\ pc' = "result_returned"
    /\ UNCHANGED <<caller, home_team, away_team, inning, away_score, home_score,
                   game_over, current_pitcher_home, current_pitcher_away,
                   home_lineup, away_lineup, result>>
    /\ UNCHANGED <<halfVars, active_roster, tradeVars, run2Vars, probVars, devVars, draftVars, careerVars, statVars, playoffRecordVars, batting_gp, batting_pa, seasonVars>>

\* simulate_game_with_result after _simulate_full_game returned (lines 83-121)
RecordResult ==
    /\ pc = "game_returned"
    /\ caller \in {"Game.play", "play_season"}
    /\ LET h == home_team
           a == away_team
       IN  IF home_score > away_score
           THEN /\ winner' = h
                /\ wins' = [wins EXCEPT ![h] = @ + 1]
                /\ losses' = [losses EXCEPT ![a] = @ + 1]
                /\ ties' = ties
                /\ pitching_stats' =
                      credit(credit(pitching_stats, current_pitcher_home, "w"),
                             current_pitcher_away, "l")
           ELSE IF away_score > home_score
           THEN /\ winner' = a
                /\ wins' = [wins EXCEPT ![a] = @ + 1]
                /\ losses' = [losses EXCEPT ![h] = @ + 1]
                /\ ties' = ties
                /\ pitching_stats' =
                      credit(credit(pitching_stats, current_pitcher_away, "w"),
                             current_pitcher_home, "l")
           ELSE /\ winner' = None
                /\ ties' = [ties EXCEPT ![h] = @ + 1, ![a] = @ + 1]
                /\ UNCHANGED <<wins, losses, pitching_stats>>
    /\ team_runs_scored' = [team_runs_scored EXCEPT ![home_team] = @ + home_score,
                                                    ![away_team] = @ + away_score]
    /\ team_runs_allowed' = [team_runs_allowed EXCEPT ![home_team] = @ + away_score,
                                                      ![away_team] = @ + home_score]
    /\ pc' = "result_returned"
    /\ UNCHANGED <<caller, home_team, away_team, inning, away_score, home_score,
                   game_over, current_pitcher_home, current_pitcher_away,
                   home_lineup, away_lineup, result>>
    /\ UNCHANGED <<halfVars, active_roster, tradeVars, run2Vars, probVars, devVars, draftVars, careerVars, statVars, playoffRecordVars, batting_gp, batting_pa, seasonVars>>

\* Team.record_game_result (team.py:53-62) applied to the records rec =
\* [wins, losses, ties, runs_scored, runs_allowed] of team t
record_game_result(rec, t, scored, allowed, res) ==
    [rec EXCEPT
        !.runs_scored[t] = @ + scored,
        !.runs_allowed[t] = @ + allowed,
        !.wins[t] = IF res = "win" THEN @ + 1 ELSE @,
        !.losses[t] = IF res = "loss" THEN @ + 1 ELSE @,
        !.ties[t] = IF res = "tie" THEN @ + 1 ELSE @]

\* Game.play after simulate_game_with_result returned (game.py:37-71)
GamePlayRecord ==
    /\ pc = "result_returned"
    /\ caller = "Game.play"
    /\ LET h == home_team
           a == away_team
           is_tie == home_score = away_score
           w == IF home_score > away_score THEN h
                ELSE IF away_score > home_score THEN a ELSE None
           l == IF home_score > away_score THEN a
                ELSE IF away_score > home_score THEN h ELSE None
           rec0 == [wins |-> wins, losses |-> losses, ties |-> ties,
                    runs_scored |-> team_runs_scored, runs_allowed |-> team_runs_allowed]
           rec1 == record_game_result(rec0, h, home_score, away_score,
                       IF is_tie THEN "tie" ELSE IF w = h THEN "win" ELSE "loss")
           rec2 == record_game_result(rec1, a, away_score, home_score,
                       IF is_tie THEN "tie" ELSE IF w = a THEN "win" ELSE "loss")
       IN  /\ result' = GameResult(h, a, home_score, away_score, w, l, is_tie)
           /\ wins' = rec2.wins
           /\ losses' = rec2.losses
           /\ ties' = rec2.ties
           /\ team_runs_scored' = rec2.runs_scored
           /\ team_runs_allowed' = rec2.runs_allowed
    /\ pc' = "done"
    /\ UNCHANGED <<caller, home_team, away_team, inning, away_score, home_score,
                   game_over, current_pitcher_home, current_pitcher_away,
                   home_lineup, away_lineup, winner>>
    /\ UNCHANGED <<halfVars, active_roster, tradeVars, run2Vars, probVars, devVars, draftVars, careerVars, statVars, playoffRecordVars, pitching_stats, batting_gp, batting_pa, seasonVars>>

\* a game between two teams of the league, run by Game.play, by play_season
\* or by play_series, on zeroed records
Init ==
    /\ active_roster = [t \in Teams |-> FixtureRoster]
    /\ InitRecords
    /\ InitSecondRun
    /\ NoAtBatProbabilities
    /\ DefaultPlayer
    /\ NoDraft
    /\ NewCareer
    /\ NewStatLines
    /\ object_id = FirstIds
    /\ NoTrade
    /\ InitSeasonSimulator(NumTeams)
    /\ InitSimulator(1, 2)
    /\ caller \in {"Game.play", "play_season", "play_series"}
    /\ pc = "new"
    /\ winner = None
    /\ result = NoGameResult
    /\ hpc = "idle"
    /\ runs_scored = 0
    /\ batters_faced = 0
    /\ at_bat = NoAtBat

Next ==
    \/ SetPitchers
    \/ setup_game
    \/ AwayHalf
    \/ HomeHalf
    \/ RecordResult
    \/ GamePlayRecord

Spec == Init /\ [][Next]_vars

\* _simulate_full_game and its callers are sequential code that nothing
\* suspends.  A bottom half of inning MaxInning that would leave the score
\* tied is not a step of HomeHalf: ties do not persist past MaxInning
SpecLive == Init /\ [][Next]_vars /\ WF_vars(Next)

\* ========================================================================
\* The season (simulation/season_sim.py), one game per group of steps
\* ========================================================================
\* generate_schedule:27 and organize_series:37
games_per_pair == 3

games_per_series == 3

\* get_available_pitcher:63: a player may start this many games of a series
PitcherCap == 2

\* play_playoffs:168-186
PlayoffTeams == 4

SemifinalBestOf == 5

ChampionshipBestOf == 7

\* the first MaxDecided games of a regular season may end with a winner,
\* the later ones end tied
MaxDecided == 2

\* the largest roster of the series rotation runs
MaxSeriesRoster == 4

\* the largest number of starts a usage counter holds when a pitcher is
\* selected for a given usage dict
MaxStarts == 3

\* generate_schedule whose inner loop starts at i instead of i + 1
round_robin_FromSelf(ts) ==
    LET n == Len(ts)
        pairs == {q \in (1..n) \X (1..n) : q[1] <= q[2]}
        before(q) == Cardinality({r \in pairs :
                         r[1] < q[1] \/ (r[1] = q[1] /\ r[2] < q[2])})
    IN  [k \in 1..(games_per_pair * Cardinality(pairs)) |->
            LET q == CHOOSE r \in pairs : before(r) = (k - 1) \div games_per_pair
            IN  <<ts[q[1]], ts[q[2]]>>]

\* generate_schedule:25-31 before the shuffle: every pair i < j of the list,
\* games_per_pair times, in the order of the nested loops
round_robin(ts) ==
    LET n == Len(ts)
        pairs == {q \in (1..n) \X (1..n) : q[1] < q[2]}
        before(q) == Cardinality({r \in pairs :
                         r[1] < q[1] \/ (r[1] = q[1] /\ r[2] < q[2])})
    IN  [k \in 1..(games_per_pair * Cardinality(pairs)) |->
            LET q == CHOOSE r \in pairs : before(r) = (k - 1) \div games_per_pair
            IN  <<ts[q[1]], ts[q[2]]>>]

Reverse(s) == [k \in 1..Len(s) |-> s[Len(s) + 1 - k]]

\* every 7th game in turn: a permutation while 7 does not divide Len(s)
Stride(s) == [k \in 1..Len(s) |-> s[(((k - 1) * 7) % Len(s)) + 1]]

\* random.shuffle (line 32): three of the orders it can produce
Shuffles(s) == {s, Reverse(s), Stride(s)}

\* organize_series that stops one window short of the end of the schedule
organize_DropsLast(s) ==
    [i \in 1..((Len(s) \div games_per_series) - 1) |->
        SubSeq(s, games_per_series * (i - 1) + 1, games_per_series * i)]

\* organize_series:40-43: full windows of games_per_series games
organize(s) ==
    [i \in 1..(Len(s) \div games_per_series) |->
        SubSeq(s, games_per_series * (i - 1) + 1, games_per_series * i)]

\* usage.get(id, 0) on an empty dict
NoUsage == [p \in Rostered |-> 0]

\* the usage dict of a series as Python keeps it: keys are str(id(player)),
\* absent until record_pitcher_usage writes them
EmptyDict == <<>>

\* usage.get(key, 0)
dict_get(d, key) == IF key \in DOMAIN d THEN d[key] ELSE 0

\* d[key] = d.get(key, 0) + 1 (record_pitcher_usage:92)
dict_incr(d, key) ==
    [x \in DOMAIN d \cup {key} |-> IF x = key THEN dict_get(d, key) + 1 ELSE d[x]]

\* a usage key that players of different teams share: the place in the roster
pitcher_id_ByRosterSpot(ids, p) == 1000 + roster_index(p)

\* str(id(player)) (lines 62, 68 and 91)
pitcher_id(ids, p) == ids[p]

\* the starts that the lookups of get_available_pitcher find in the dict d
usage_by_id(d, ids) == [p \in Rostered |-> dict_get(d, pitcher_id(ids, p))]

\* get_available_pitcher whose sort key puts the skill before the usage
get_available_pitcher_SkillFirst(t, usage, is_playoff) ==
    IF is_playoff THEN best_pitcher(t)
    ELSE LET available == {p \in RosterOf(t) : usage[p] < PitcherCap}
             ahead(p, q) ==
                 \/ skill(p) > skill(q)
                 \/ skill(p) = skill(q) /\ usage[p] < usage[q]
                 \/ usage[p] = usage[q] /\ skill(p) = skill(q)
                                        /\ roster_index(p) < roster_index(q)
         IN  IF available = {}
             THEN CHOOSE p \in RosterOf(t) : \A q \in RosterOf(t) \ {p} :
                      \/ usage[p] < usage[q]
                      \/ usage[p] = usage[q] /\ roster_index(p) < roster_index(q)
             ELSE CHOOSE p \in available : \A q \in available \ {p} : ahead(p, q)

\* get_available_pitcher that takes the best pitcher in the regular season too
get_available_pitcher_BestAlways(t, usage, is_playoff) == best_pitcher(t)

\* get_available_pitcher whose fallback takes max() for min()
get_available_pitcher_MostUsedFallback(t, usage, is_playoff) ==
    IF is_playoff THEN best_pitcher(t)
    ELSE LET available == {p \in RosterOf(t) : usage[p] < PitcherCap}
             ahead(p, q) ==
                 \/ usage[p] < usage[q]
                 \/ usage[p] = usage[q] /\ skill(p) > skill(q)
                 \/ usage[p] = usage[q] /\ skill(p) = skill(q)
                                        /\ roster_index(p) < roster_index(q)
         IN  IF available = {}
             THEN CHOOSE p \in RosterOf(t) : \A q \in RosterOf(t) \ {p} :
                      \/ usage[p] > usage[q]
                      \/ usage[p] = usage[q] /\ roster_index(p) < roster_index(q)
             ELSE CHOOSE p \in available : \A q \in available \ {p} : ahead(p, q)

\* get_available_pitcher (lines 50-84). min() returns the first least used
\* player of the roster; the sort of line 73 is stable, so equal keys keep
\* the roster order
get_available_pitcher(t, usage, is_playoff) ==
    IF is_playoff THEN best_pitcher(t)
    ELSE LET available == {p \in RosterOf(t) : usage[p] < PitcherCap}
             ahead(p, q) ==
                 \/ usage[p] < usage[q]
                 \/ usage[p] = usage[q] /\ skill(p) > skill(q)
                 \/ usage[p] = usage[q] /\ skill(p) = skill(q)
                                        /\ roster_index(p) < roster_index(q)
         IN  IF available = {}
             THEN CHOOSE p \in RosterOf(t) : \A q \in RosterOf(t) \ {p} :
                      \/ usage[p] < usage[q]
                      \/ usage[p] = usage[q] /\ roster_index(p) < roster_index(q)
             ELSE CHOOSE p \in available : \A q \in available \ {p} : ahead(p, q)

\* record_pitcher_usage (lines 86-92)
record_pitcher_usage(usage, p) == [usage EXCEPT ![p] = @ + 1]

\* GameSimulator(home, away) followed by the override of both pitchers
\* (play_season:111-119, play_series:205-212)
NewSimulator(home, away, hp, ap) ==
    /\ home_team' = home
    /\ away_team' = away
    /\ current_pitcher_home' = hp
    /\ current_pitcher_away' = ap
    /\ home_lineup' = {}
    /\ away_lineup' = {}
    /\ home_score' = 0
    /\ away_score' = 0
    /\ inning' = 1
    /\ is_home_batting' = FALSE
    /\ outs' = 0
    /\ bases' = EmptyBases
    /\ game_over' = FALSE
    /\ winner' = None
    /\ hpc' = "idle"
    /\ UNCHANGED <<runs_scored, batters_faced, at_bat, result>>

\* play_season:96 generate_schedule
generate_schedule ==
    /\ pc = "season"
    /\ schedule' \in Shuffles(round_robin(teams))
    /\ pc' = "scheduled"
    /\ UNCHANGED <<series_schedule, series_pitcher_usage, results, series_num, game_num>>
    /\ UNCHANGED <<caller, home_team, away_team, inning, away_score, home_score,
                   game_over, current_pitcher_home, current_pitcher_away,
                   home_lineup, away_lineup, winner, result>>
    /\ UNCHANGED <<halfVars, active_roster, tradeVars, run2Vars, probVars, devVars, draftVars, careerVars, statVars, recordVars, playoffRecordVars, playoffVars>>

\* play_season:97-98 organize_series and the reset of self.results
organize_series ==
    /\ pc = "scheduled"
    /\ series_schedule' = organize(schedule)
    /\ series_pitcher_usage' = [i \in 1..Len(organize(schedule)) |-> NoUsage]
    /\ run2_usage' = [i \in 1..Len(organize(schedule)) |-> EmptyDict]
    /\ results' = <<>>
    /\ series_num' = 1
    /\ game_num' = 0
    /\ pc' = "series"
    /\ UNCHANGED schedule
    /\ UNCHANGED <<caller, home_team, away_team, inning, away_score, home_score,
                   game_over, current_pitcher_home, current_pitcher_away,
                   home_lineup, away_lineup, winner, result>>
    /\ UNCHANGED <<object_id, run2_pitcher_home, run2_pitcher_away>>
    /\ UNCHANGED <<halfVars, active_roster, tradeVars, probVars, devVars, draftVars, careerVars, statVars, recordVars, playoffRecordVars, playoffVars>>

\* the loops of play_season:103-107 have a game left
HasNextGame ==
    /\ series_num <= Len(series_schedule)
    /\ game_num < games_per_series \/ series_num < Len(series_schedule)

\* min() and max() of an empty roster raise ValueError (lines 54 and 68)
raises_ValueError(t) == RosterOf(t) = {}

\* play_season:107-126: the next game of the series, its simulator, the two
\* starting pitchers and their usage; the ValueError of a pitcher selection
\* leaves play_season, which catches nothing
SeasonNextGame ==
    /\ pc = "series"
    /\ HasNextGame
    /\ LET sn == IF game_num < games_per_series THEN series_num ELSE series_num + 1
           gn == IF game_num < games_per_series THEN game_num + 1 ELSE 1
           g == series_schedule[sn][gn]
           usage == series_pitcher_usage[sn]
           hp == get_available_pitcher(g[1], usage, FALSE)
           ap == get_available_pitcher(g[2], usage, FALSE)
           usage2 == usage_by_id(run2_usage[sn], object_id)
           hp2 == get_available_pitcher(g[1], usage2, FALSE)
           ap2 == get_available_pitcher(g[2], usage2, FALSE)
       IN  /\ series_num' = sn
           /\ game_num' = gn
           /\ IF raises_ValueError(g[1]) \/ raises_ValueError(g[2])
              THEN /\ NewSimulator(g[1], g[2], None, None)
                   /\ pc' = "ValueError"
                   /\ UNCHANGED series_pitcher_usage
                   /\ run2_pitcher_home' = None
                   /\ run2_pitcher_away' = None
                   /\ UNCHANGED run2_usage
              ELSE /\ NewSimulator(g[1], g[2], hp, ap)
                   /\ pc' = "pitchers_set"
                   /\ series_pitcher_usage' =
                         [series_pitcher_usage EXCEPT
                             ![sn] = record_pitcher_usage(record_pitcher_usage(@, hp), ap)]
                   /\ run2_pitcher_home' = hp2
                   /\ run2_pitcher_away' = ap2
                   /\ run2_usage' =
                         [run2_usage EXCEPT
                             ![sn] = dict_incr(dict_incr(@, pitcher_id(object_id, hp2)),
                                               pitcher_id(object_id, ap2))]
    /\ UNCHANGED <<caller, schedule, series_schedule, results, object_id>>
    /\ UNCHANGED <<active_roster, tradeVars, probVars, devVars, draftVars, careerVars, statVars, recordVars, playoffRecordVars, playoffVars>>

\* the final states of _simulate_full_game the season runs draw from: a home
\* win and an away win after three innings, and the 6-6 tie that the mercy
\* rule leaves after the home half of inning 2
FinalGames ==
    { [away_score |-> 0, home_score |-> 1, inning |-> 3, runs |-> 1],
      [away_score |-> 1, home_score |-> 0, inning |-> 3, runs |-> 0],
      [away_score |-> 6, home_score |-> 6, inning |-> 2, runs |-> 6] }

\* the while loop of _simulate_full_game (lines 41-73) as one step: the game
\* ends in one of FinalGames. The runs and earned runs that the half-innings
\* charge to the pitchers are followed in SpecHalf and Spec; the season runs
\* leave them where setup_game found them.
PlayFullGame ==
    /\ pc = "top"
    /\ caller \in {"play_season", "play_series"}
    /\ \E g \in FinalGames :
          /\ (caller = "play_season" /\ Len(results) >= MaxDecided)
                => g.away_score = g.home_score
          /\ away_score' = g.away_score
          /\ home_score' = g.home_score
          /\ inning' = g.inning
          /\ runs_scored' = g.runs
    /\ game_over' = TRUE
    /\ is_home_batting' = TRUE
    /\ outs' = 3
    /\ hpc' = "returned"
    /\ pc' = "game_returned"
    /\ UNCHANGED <<bases, batters_faced, at_bat>>
    /\ UNCHANGED <<caller, home_team, away_team, current_pitcher_home,
                   current_pitcher_away, home_lineup, away_lineup, winner, result>>
    /\ UNCHANGED <<active_roster, tradeVars, run2Vars, probVars, devVars, draftVars, careerVars, statVars, recordVars, playoffRecordVars, seasonVars>>

\* play_season:129-132: the dict simulate_game_with_result returned
\* (game_sim.py:114-121) is appended to self.results
SeasonAppendResult ==
    /\ pc = "result_returned"
    /\ caller = "play_season"
    /\ results' = Append(results,
                         [home_team |-> home_team, away_team |-> away_team,
                          home_score |-> home_score, away_score |-> away_score,
                          winner |-> winner])
    /\ pc' = "series"
    /\ UNCHANGED <<schedule, series_schedule, series_pitcher_usage, series_num, game_num>>
    /\ UNCHANGED <<caller, home_team, away_team, inning, away_score, home_score,
                   game_over, current_pitcher_home, current_pitcher_away,
                   home_lineup, away_lineup, winner, result>>
    /\ UNCHANGED <<halfVars, active_roster, tradeVars, run2Vars, probVars, devVars, draftVars, careerVars, statVars, recordVars, playoffRecordVars, playoffVars>>

\* rosters of one to six players; the best pitcher is never the first
RosterPattern == <<110, 130, 120, 130, 100, 120>>

\* the sizes of the leagues the season runs start from; a league may be empty
LeagueSizes == 0..NumTeams

\* play_season entered on a new league of m teams with n players each; team
\* e, if any, has no player at all
InitSeason(m, n, e) ==
    /\ active_roster = [t \in Teams |-> IF t = e THEN <<>> ELSE SubSeq(RosterPattern, 1, n)]
    /\ InitRecords
    /\ InitSecondRun
    /\ NoAtBatProbabilities
    /\ DefaultPlayer
    /\ NoDraft
    /\ NewCareer
    /\ NewStatLines
    /\ NoTrade
    /\ InitSeasonSimulator(m)
    /\ InitSimulator(None, None)
    /\ caller = "play_season"
    /\ pc = "season"
    /\ winner = None
    /\ result = NoGameResult
    /\ hpc = "idle"
    /\ runs_scored = 0
    /\ batters_faced = 0
    /\ at_bat = NoAtBat

InitSeries ==
    \E m \in LeagueSizes, n \in 1..MaxSeriesRoster, e \in {None, 1} :
        /\ e \in {None} \cup (1..m)
        /\ InitSeason(m, n, e)
        /\ object_id \in ObjectIds

\* the regular season
NextSeries ==
    \/ generate_schedule
    \/ organize_series
    \/ SeasonNextGame
    \/ setup_game
    \/ PlayFullGame
    \/ RecordResult
    \/ SeasonAppendResult

SpecSeries == InitSeries /\ [][NextSeries]_vars

\* ------------------------------------------------------------------------
\* The playoffs and the end of the season
\* ------------------------------------------------------------------------
\* sorted(ts, key=wins, reverse=True): descending and stable
sort_by_wins(ts) ==
    LET place(i) == 1 + Cardinality({j \in 1..Len(ts) :
                            \/ wins[ts[j]] > wins[ts[i]]
                            \/ wins[ts[j]] = wins[ts[i]] /\ j < i})
    IN  [k \in 1..Len(ts) |-> ts[CHOOSE i \in 1..Len(ts) : place(i) = k]]

\* play_series that needs only half of the games
wins_needed_Half == best_of \div 2

\* play_series:192
wins_needed == (best_of \div 2) + 1

\* play_series:192-195 entered with its arguments
StartSeries(t1, t2, bo, name) ==
    /\ team1' = t1
    /\ team2' = t2
    /\ best_of' = bo
    /\ series_name' = name
    /\ team1_wins' = 0
    /\ team2_wins' = 0
    /\ series_game_num' = 1

\* play_season:148-160 and play_playoffs:166-181: the standings are saved,
\* the playoff counters zeroed, self.teams sorted, and the first semifinal
\* is entered
StartPlayoffs ==
    /\ pc = "series"
    /\ ~HasNextGame
    /\ regular_season_standings' = sort_by_wins(teams)
    /\ playoff_wins' = [t \in Teams |-> 0]
    /\ playoff_losses' = [t \in Teams |-> 0]
    /\ teams' = sort_by_wins(teams)
    /\ final_teams' = <<>>
    /\ caller' = "play_series"
    /\ IF Len(teams) < PlayoffTeams
       THEN /\ pc' = "playoffs_done"
            /\ UNCHANGED <<team1, team2, best_of, series_name, team1_wins,
                           team2_wins, series_game_num>>
       ELSE /\ pc' = "series_game"
            /\ StartSeries(sort_by_wins(teams)[1], sort_by_wins(teams)[2],
                           SemifinalBestOf, "Semifinal")
    /\ UNCHANGED <<champion, season_result, scheduleVars>>
    /\ UNCHANGED <<home_team, away_team, inning, away_score, home_score,
                   game_over, current_pitcher_home, current_pitcher_away,
                   home_lineup, away_lineup, winner, result>>
    /\ UNCHANGED <<halfVars, active_roster, tradeVars, run2Vars, probVars, devVars, draftVars, careerVars, statVars, recordVars>>

\* play_series:197-212: the next game of the series; team1 is at home in the
\* odd games
PlayoffNextGame ==
    /\ pc = "series_game"
    /\ team1_wins < wins_needed /\ team2_wins < wins_needed
    /\ LET home == IF series_game_num % 2 = 1 THEN team1 ELSE team2
           away == IF home = team1 THEN team2 ELSE team1
       IN  NewSimulator(home, away,
                        get_available_pitcher(home, NoUsage, TRUE),
                        get_available_pitcher(away, NoUsage, TRUE))
    /\ pc' = "pitchers_set"
    /\ UNCHANGED caller
    /\ UNCHANGED <<active_roster, tradeVars, run2Vars, probVars, devVars, draftVars, careerVars, statVars, recordVars, playoffRecordVars, seasonVars>>

\* play_series that gives a tied game to the visiting team
PlayoffRecordGame_TieToAway ==
    /\ pc = "game_returned"
    /\ caller = "play_series"
    /\ LET w == IF home_score > away_score THEN home_team
                ELSE IF away_score > home_score THEN away_team
                ELSE away_team
           l == IF w = home_team THEN away_team ELSE home_team
       IN  /\ winner' = w
           /\ team1_wins' = IF w = team1 THEN team1_wins + 1 ELSE team1_wins
           /\ team2_wins' = IF w = team1 THEN team2_wins ELSE team2_wins + 1
           /\ playoff_wins' = [playoff_wins EXCEPT ![w] = @ + 1]
           /\ playoff_losses' = [playoff_losses EXCEPT ![l] = @ + 1]
    /\ series_game_num' = series_game_num + 1
    /\ pc' = "series_game"
    /\ UNCHANGED <<teams, regular_season_standings, final_teams, series_name,
                   team1, team2, best_of, champion, season_result, scheduleVars>>
    /\ UNCHANGED <<caller, home_team, away_team, inning, away_score, home_score,
                   game_over, current_pitcher_home, current_pitcher_away,
                   home_lineup, away_lineup, result>>
    /\ UNCHANGED <<halfVars, active_roster, tradeVars, run2Vars, probVars, devVars, draftVars, careerVars, statVars, recordVars>>

\* play_series that also credits the game to the regular-season records
PlayoffRecordGame_RegularToo ==
    /\ pc = "game_returned"
    /\ caller = "play_series"
    /\ LET w == IF home_score > away_score THEN home_team
                ELSE IF away_score > home_score THEN away_team
                ELSE home_team
           l == IF w = home_team THEN away_team ELSE home_team
       IN  /\ winner' = w
           /\ team1_wins' = IF w = team1 THEN team1_wins + 1 ELSE team1_wins
           /\ team2_wins' = IF w = team1 THEN team2_wins ELSE team2_wins + 1
           /\ playoff_wins' = [playoff_wins EXCEPT ![w] = @ + 1]
           /\ playoff_losses' = [playoff_losses EXCEPT ![l] = @ + 1]
           /\ wins' = [wins EXCEPT ![w] = @ + 1]
           /\ losses' = [losses EXCEPT ![l] = @ + 1]
    /\ series_game_num' = series_game_num + 1
    /\ pc' = "series_game"
    /\ UNCHANGED <<teams, regular_season_standings, final_teams, series_name,
                   team1, team2, best_of, champion, season_result, scheduleVars>>
    /\ UNCHANGED <<caller, home_team, away_team, inning, away_score, home_score,
                   game_over, current_pitcher_home, current_pitcher_away,
                   home_lineup, away_lineup, result>>
    /\ UNCHANGED <<halfVars, active_roster, tradeVars, run2Vars, probVars, devVars, draftVars, careerVars, statVars, ties, team_runs_scored, team_runs_allowed,
                   pitching_stats, batting_gp, batting_pa>>

\* play_series:219-243 after _simulate_full_game returned
PlayoffRecordGame ==
    /\ pc = "game_returned"
    /\ caller = "play_series"
    /\ LET w == IF home_score > away_score THEN home_team
                ELSE IF away_score > home_score THEN away_team
                ELSE home_team
           l == IF w = home_team THEN away_team ELSE home_team
       IN  /\ winner' = w
           /\ team1_wins' = IF w = team1 THEN team1_wins + 1 ELSE team1_wins
           /\ team2_wins' = IF w = team1 THEN team2_wins ELSE team2_wins + 1
           /\ playoff_wins' = [playoff_wins EXCEPT ![w] = @ + 1]
           /\ playoff_losses' = [playoff_losses EXCEPT ![l] = @ + 1]
    /\ series_game_num' = series_game_num + 1
    /\ pc' = "series_game"
    /\ UNCHANGED <<teams, regular_season_standings, final_teams, series_name,
                   team1, team2, best_of, champion, season_result, scheduleVars>>
    /\ UNCHANGED <<caller, home_team, away_team, inning, away_score, home_score,
                   game_over, current_pitcher_home, current_pitcher_away,
                   home_lineup, away_lineup, result>>
    /\ UNCHANGED <<halfVars, active_roster, tradeVars, run2Vars, probVars, devVars, draftVars, careerVars, statVars, recordVars>>

\* play_series:245-251 returns the winner to play_playoffs:176-186, which
\* enters the next series or has its champion
SeriesReturn ==
    /\ pc = "series_game"
    /\ ~(team1_wins < wins_needed /\ team2_wins < wins_needed)
    /\ LET w == IF team1_wins >= wins_needed THEN team1 ELSE team2
           finalists == Append(final_teams, w)
       IN  IF series_name = "Semifinal"
           THEN /\ final_teams' = finalists
                /\ IF Len(finalists) < 2
                   THEN StartSeries(teams[3], teams[4], SemifinalBestOf, "Semifinal")
                   ELSE StartSeries(finalists[1], finalists[2],
                                    ChampionshipBestOf, "Championship")
                /\ pc' = "series_game"
                /\ UNCHANGED champion
           ELSE /\ champion' = w
                /\ pc' = "playoffs_done"
                /\ UNCHANGED <<final_teams, team1, team2, best_of, series_name,
                               team1_wins, team2_wins, series_game_num>>
    /\ UNCHANGED <<teams, regular_season_standings, season_result, scheduleVars>>
    /\ UNCHANGED <<caller, home_team, away_team, inning, away_score, home_score,
                   game_over, current_pitcher_home, current_pitcher_away,
                   home_lineup, away_lineup, winner, result>>
    /\ UNCHANGED <<halfVars, active_roster, tradeVars, run2Vars, probVars, devVars, draftVars, careerVars, statVars, recordVars, playoffRecordVars>>

\* play_season:161-164 restores self.teams; simulate_full_season:790-798
\* returns the standings and their first team as the champion
FinishSeason ==
    /\ pc = "playoffs_done"
    /\ teams' = regular_season_standings
    /\ season_result' =
          [champion |-> IF Len(regular_season_standings) > 0
                        THEN sort_by_wins(regular_season_standings)[1] ELSE None,
           standings |-> sort_by_wins(regular_season_standings)]
    /\ pc' = "season_done"
    /\ UNCHANGED <<regular_season_standings, final_teams, series_name, team1, team2,
                   best_of, team1_wins, team2_wins, series_game_num, champion,
                   scheduleVars>>
    /\ UNCHANGED <<halfVars, active_roster, tradeVars, run2Vars, probVars, devVars, draftVars, careerVars, statVars, recordVars, playoffRecordVars>>
    /\ UNCHANGED <<caller, home_team, away_team, inning, away_score, home_score,
                   game_over, current_pitcher_home, current_pitcher_away,
                   home_lineup, away_lineup, winner, result>>

\* simulate_full_season on a league whose teams have the three players of
\* the fixture
InitFullSeason ==
    \E m \in LeagueSizes :
        /\ InitSeason(m, Len(FixtureRoster), None)
        /\ object_id = FirstIds

NextSeason ==
    \/ generate_schedule
    \/ organize_series
    \/ SeasonNextGame
    \/ setup_game
    \/ PlayFullGame
    \/ RecordResult
    \/ SeasonAppendResult
    \/ StartPlayoffs
    \/ PlayoffNextGame
    \/ PlayoffRecordGame
    \/ SeriesReturn
    \/ FinishSeason

SpecSeason == InitFullSeason /\ [][NextSeason]_vars

\* ========================================================================
\* get_available_pitcher on any usage counters, one call per behaviour
\* ========================================================================
\* a simulator on team 1 with n players, about to select its pitcher, in the
\* regular season or in the playoffs
InitSelect ==
    \E n \in 0..MaxSeriesRoster :
        /\ active_roster = [t \in Teams |-> IF t = 1 THEN SubSeq(RosterPattern, 1, n) ELSE <<>>]
        /\ InitRecords
        /\ InitSecondRun
        /\ NoAtBatProbabilities
        /\ DefaultPlayer
        /\ NoDraft
        /\ NewCareer
        /\ NewStatLines
        /\ object_id = FirstIds
        /\ NoTrade
        /\ InitSeasonSimulator(NumTeams)
        /\ InitSimulator(1, 2)
        /\ caller \in {"play_season", "play_series"}
        /\ pc = "select"
        /\ winner = None
        /\ result = NoGameResult
        /\ hpc = "idle"
        /\ runs_scored = 0
        /\ batters_faced = 0
        /\ at_bat = NoAtBat

\* one call of get_available_pitcher for the home team (play_season:114,
\* play_series:208) with any starts up to MaxStarts already recorded for the
\* series; max() and min() of an empty roster raise ValueError
SelectPitcher ==
    /\ pc = "select"
    /\ \E usage \in [Rostered -> 0..MaxStarts] :
          /\ series_pitcher_usage' = <<usage>>
          /\ IF raises_ValueError(home_team)
             THEN /\ pc' = "ValueError"
                  /\ UNCHANGED current_pitcher_home
             ELSE /\ pc' = "selected"
                  /\ current_pitcher_home' =
                        get_available_pitcher(home_team, usage, caller = "play_series")
    /\ series_num' = 1
    /\ UNCHANGED <<caller, home_team, away_team, inning, away_score, home_score,
                   game_over, current_pitcher_away, home_lineup, away_lineup,
                   winner, result>>
    /\ UNCHANGED <<schedule, series_schedule, results, game_num>>
    /\ UNCHANGED <<halfVars, active_roster, tradeVars, run2Vars, probVars, devVars, draftVars, careerVars, statVars, recordVars, playoffRecordVars, playoffVars>>

NextSelect == SelectPitcher

SpecSelect == InitSelect /\ [][NextSelect]_vars

\* ========================================================================
\* Trades (simulation/trading.py), one execute_trade per behaviour
\* ========================================================================
\* the elements of a list
Range(s) == {s[i] : i \in 1..Len(s)}

\* list.remove: the list without the first occurrence of p
list_remove(s, p) ==
    LET i == CHOOSE k \in 1..Len(s) : s[k] = p /\ \A h \in 1..(k - 1) : s[h] # p
    IN  SubSeq(s, 1, i - 1) \o SubSeq(s, i + 1, Len(s))

\* add_player that compares with <= and lets one more player in
add_player_OneMore(T, p, active) ==
    IF active /\ Len(T.active_roster) <= ActiveLimit
    THEN [T EXCEPT !.active_roster = Append(@, p)]
    ELSE IF ~active /\ Len(T.reserve_roster) <= ReserveLimit
    THEN [T EXCEPT !.reserve_roster = Append(@, p)]
    ELSE T

\* Team.add_player on the team record T; a full list leaves T as it is (the
\* call returns False)
add_player(T, p, active) ==
    IF active /\ Len(T.active_roster) < ActiveLimit
    THEN [T EXCEPT !.active_roster = Append(@, p)]
    ELSE IF ~active /\ Len(T.reserve_roster) < ReserveLimit
    THEN [T EXCEPT !.reserve_roster = Append(@, p)]
    ELSE T

\* Team.remove_player on the team record T
remove_player(T, p) ==
    IF p \in Range(T.active_roster)
    THEN [T EXCEPT !.active_roster = list_remove(@, p)]
    ELSE IF p \in Range(T.reserve_roster)
    THEN [T EXCEPT !.reserve_roster = list_remove(@, p)]
    ELSE T

\* Team.get_all_players, as a set
get_all_players(t) == Range(rosters[t].active_roster \o rosters[t].reserve_roster)

\* one loop of execute_trade: every player of the list is removed from the
\* team from and added, active, to the team to; the results of both calls are
\* ignored
RECURSIVE move_players(_, _, _, _)
move_players(rs, players, from, to) ==
    IF players = <<>> THEN rs
    ELSE LET p == Head(players)
             removed == [rs EXCEPT ![from] = remove_player(@, p)]
             added == [removed EXCEPT ![to] = add_player(@, p, TRUE)]
         IN  move_players(added, Tail(players), from, to)

\* execute_trade (lines 251-269)
execute_trade ==
    /\ executed = "called"
    /\ IF ~offer.approved
       THEN /\ executed' = "False"
            /\ UNCHANGED rosters
       ELSE /\ rosters' = move_players(
                              move_players(rosters, offer.players_a, offer.team_a, offer.team_b),
                              offer.players_b, offer.team_b, offer.team_a)
            /\ executed' = "True"
    /\ UNCHANGED <<offer, last_call>>
    /\ player_team' =
          IF ~offer.approved THEN player_team
          ELSE [p \in PlayerObjects |->
                  IF p \in Range(offer.players_a)
                  THEN IF p \in get_all_players(offer.team_b)' THEN offer.team_b ELSE None
                  ELSE IF p \in Range(offer.players_b)
                  THEN IF p \in get_all_players(offer.team_a)' THEN offer.team_a ELSE None
                  ELSE player_team[p]]
    /\ UNCHANGED <<halfVars, gameVars, active_roster, recordVars, playoffRecordVars, seasonVars,
                   run2Vars, probVars, devVars, draftVars, careerVars, statVars>>

\* find_available_players and find_tradeable_players return at most two
\* players of a roster, in roster order ("[:2]", lines 227 and 249)
Picks(s) ==
    {<<>>} \cup {<<s[i]>> : i \in 1..Len(s)}
           \cup {<<s[ij[1]], s[ij[2]]>> :
                    ij \in {x \in (1..Len(s)) \X (1..Len(s)) : x[1] < x[2]}}

\* the players of team t: na on the active roster, nr in reserve
RostersOf(t, na, nr) ==
    [active_roster |-> [k \in 1..na |-> Player(t, k)],
     reserve_roster |-> [k \in 1..nr |-> Player(t, ActiveLimit + k)]]

\* teams 1 and 2 with rosters of any size within the limits, and an offer,
\* approved or not, of players of the two teams
InitTrade ==
    /\ active_roster = [t \in Teams |-> FixtureRoster]
    /\ InitRecords
    /\ InitSecondRun
    /\ NoAtBatProbabilities
    /\ DefaultPlayer
    /\ NoDraft
    /\ NewCareer
    /\ NewStatLines
    /\ object_id = FirstIds
    /\ InitSeasonSimulator(NumTeams)
    /\ InitSimulator(1, 2)
    /\ caller = "Game.play"
    /\ pc = "new"
    /\ winner = None
    /\ result = NoGameResult
    /\ hpc = "idle"
    /\ runs_scored = 0
    /\ batters_faced = 0
    /\ at_bat = NoAtBat
    /\ \E na \in 0..ActiveLimit, nb \in 0..ActiveLimit,
          ra \in 0..ReserveLimit, rb \in 0..ReserveLimit :
          LET A == RostersOf(1, na, ra)
              B == RostersOf(2, nb, rb)
          IN  /\ rosters = [t \in Teams |-> IF t = 1 THEN A ELSE IF t = 2 THEN B ELSE NoRosters]
              /\ \E pa \in Picks(A.active_roster \o A.reserve_roster),
                    pb \in Picks(B.active_roster \o B.reserve_roster),
                    ok \in BOOLEAN :
                    offer = [team_a |-> 1, team_b |-> 2, players_a |-> pa,
                             players_b |-> pb, approved |-> ok]
    /\ player_team = [p \in PlayerObjects |->
                         IF \E t \in Teams : p \in get_all_players(t)
                         THEN team_of(p) ELSE None]
    /\ last_call = NoCall
    /\ executed = "called"

NextTrade == execute_trade

SpecTrade == InitTrade /\ [][NextTrade]_vars

\* ========================================================================
\* Building a roster (models/team.py): add_player and remove_player calls on
\* one team that starts empty
\* ========================================================================
\* the number of players the calls are made with; a player may be added more
\* than once, add_player does not look for the player on the roster
MaxPool == 2

Pool == {Player(1, k) : k \in 1..MaxPool}

\* MLWRules.validate_roster (mlw_rules.py:52-65): the flag it returns
validate_roster(T) ==
    IF Len(T.active_roster) > 6 THEN FALSE
    ELSE IF Len(T.reserve_roster) > 2 THEN FALSE
    ELSE IF Len(T.active_roster) + Len(T.reserve_roster) > 8 THEN FALSE
    ELSE TRUE

\* Team 1, new: the dataclass defaults (team.py:11-12)
InitRoster ==
    /\ active_roster = [t \in Teams |-> FixtureRoster]
    /\ InitRecords
    /\ InitSecondRun
    /\ NoAtBatProbabilities
    /\ DefaultPlayer
    /\ NoDraft
    /\ NewCareer
    /\ NewStatLines
    /\ object_id = FirstIds
    /\ NoTrade
    /\ InitSeasonSimulator(NumTeams)
    /\ InitSimulator(1, 2)
    /\ caller = "Game.play"
    /\ pc = "new"
    /\ winner = None
    /\ result = NoGameResult
    /\ hpc = "idle"
    /\ runs_scored = 0
    /\ batters_faced = 0
    /\ at_bat = NoAtBat

\* team.add_player(p, active) (team.py:25-35)
AddPlayer ==
    \E p \in Pool, active \in BOOLEAN :
        LET T == rosters[1]
            added == add_player(T, p, active) # T
        IN  /\ rosters' = [rosters EXCEPT ![1] = add_player(T, p, active)]
            /\ player_team' = IF added THEN [player_team EXCEPT ![p] = 1] ELSE player_team
            /\ last_call' = [method |-> "add_player", player |-> p, active |-> active,
                             returned |-> added]
            /\ UNCHANGED <<offer, executed>>
            /\ UNCHANGED <<halfVars, gameVars, active_roster, recordVars, playoffRecordVars,
                           seasonVars, run2Vars, probVars, devVars, draftVars, careerVars, statVars>>

\* team.remove_player(p) (team.py:37-47)
RemovePlayer ==
    \E p \in Pool :
        LET T == rosters[1]
            removed == remove_player(T, p) # T
        IN  /\ rosters' = [rosters EXCEPT ![1] = remove_player(T, p)]
            /\ player_team' = IF removed THEN [player_team EXCEPT ![p] = None] ELSE player_team
            /\ last_call' = [method |-> "remove_player", player |-> p, active |-> FALSE,
                             returned |-> removed]
            /\ UNCHANGED <<offer, executed>>
            /\ UNCHANGED <<halfVars, gameVars, active_roster, recordVars, playoffRecordVars,
                           seasonVars, run2Vars, probVars, devVars, draftVars, careerVars, statVars>>

NextRoster ==
    \/ AddPlayer
    \/ RemovePlayer

SpecRoster == InitRoster /\ [][NextRoster]_vars

\* ========================================================================
\* The at-bat probabilities (simulation/probability.py), from the sigmoid
\* outputs on
\* ========================================================================
\* the sigmoid outputs the calculation is run on: 1%, 2%, 3%, 50%, 97% and
\* 100%. sigmoid gives values above 0, and 1.0 for a large input
RawLevels == {Unit \div 100, Unit \div 50, 3 * (Unit \div 100), Unit \div 2,
              97 * (Unit \div 100), Unit}

\* line 104: the total below which the raw probabilities are replaced
small_total == Unit \div 10

\* lines 106-109: the raw probabilities of the fallback
fallback_raw ==
    [strikeout |-> 25 * (Unit \div 100), walk |-> 8 * (Unit \div 100),
     hit_no_hr |-> 15 * (Unit \div 100), homerun |-> 2 * (Unit \div 100)]

\* lines 98-101: p_hit_raw * (1 - p_homerun_raw) and the total of the four
p_hit_no_hr(ph, phr) == (ph * (Unit - phr)) \div Unit

raw_total(ps, pw, ph, phr) == ps + pw + p_hit_no_hr(ph, phr) + phr

\* lines 113-116: x / raw_total, rounded to the nearest unit as a float
\* quotient is rounded to the nearest float
quotient(x, total) == (2 * x * Unit + total) \div (2 * total)

\* calculate_outcome_probabilities that divides the fallback values by the
\* small total it found
calculate_outcome_probabilities_StaleTotal(ps, pw, ph, phr) ==
    LET r == IF raw_total(ps, pw, ph, phr) < small_total
             THEN fallback_raw
             ELSE [strikeout |-> ps, walk |-> pw,
                   hit_no_hr |-> p_hit_no_hr(ph, phr), homerun |-> phr]
        total == raw_total(ps, pw, ph, phr)
        p_strikeout == quotient(r.strikeout, total)
        p_walk == quotient(r.walk, total)
        p_ball_in_play == quotient(r.hit_no_hr, total)
        p_homerun == quotient(r.homerun, total)
        p_out == Unit - (p_strikeout + p_walk + p_ball_in_play + p_homerun)
    IN  [strikeout |-> p_strikeout, walk |-> p_walk,
         ball_in_play |-> p_ball_in_play, homerun |-> p_homerun,
         out |-> IF p_out > 0 THEN p_out ELSE 0]

\* calculate_outcome_probabilities from line 98 on, on the four sigmoid
\* outputs
calculate_outcome_probabilities(ps, pw, ph, phr) ==
    LET r == IF raw_total(ps, pw, ph, phr) < small_total
             THEN fallback_raw
             ELSE [strikeout |-> ps, walk |-> pw,
                   hit_no_hr |-> p_hit_no_hr(ph, phr), homerun |-> phr]
        total == r.strikeout + r.walk + r.hit_no_hr + r.homerun
        p_strikeout == quotient(r.strikeout, total)
        p_walk == quotient(r.walk, total)
        p_ball_in_play == quotient(r.hit_no_hr, total)
        p_homerun == quotient(r.homerun, total)
        p_out == Unit - (p_strikeout + p_walk + p_ball_in_play + p_homerun)
    IN  [strikeout |-> p_strikeout, walk |-> p_walk,
         ball_in_play |-> p_ball_in_play, homerun |-> p_homerun,
         out |-> IF p_out > 0 THEN p_out ELSE 0]

\* a calculator about to turn its four sigmoid outputs into probabilities
InitProbabilities ==
    /\ active_roster = [t \in Teams |-> FixtureRoster]
    /\ InitRecords
    /\ InitSecondRun
    /\ object_id = FirstIds
    /\ NoTrade
    /\ InitSeasonSimulator(NumTeams)
    /\ InitSimulator(1, 2)
    /\ caller = "Game.play"
    /\ pc = "new"
    /\ winner = None
    /\ result = NoGameResult
    /\ hpc = "idle"
    /\ runs_scored = 0
    /\ batters_faced = 0
    /\ at_bat = NoAtBat
    /\ DefaultPlayer
    /\ NoDraft
    /\ NewCareer
    /\ NewStatLines
    /\ p_strikeout_raw \in RawLevels
    /\ p_walk_raw \in RawLevels
    /\ p_hit_raw \in RawLevels
    /\ p_homerun_raw \in RawLevels
    /\ probabilities = NoProbabilities

\* probabilities = self.calculate_outcome_probabilities(...) (line 222)
CalculateOutcomeProbabilities ==
    /\ probabilities = NoProbabilities
    /\ probabilities' = calculate_outcome_probabilities(p_strikeout_raw, p_walk_raw,
                                                        p_hit_raw, p_homerun_raw)
    /\ UNCHANGED <<p_strikeout_raw, p_walk_raw, p_hit_raw, p_homerun_raw>>
    /\ UNCHANGED <<halfVars, gameVars, active_roster, recordVars, playoffRecordVars,
                   seasonVars, tradeVars, run2Vars, devVars, draftVars, careerVars, statVars>>

NextProbabilities == CalculateOutcomeProbabilities

SpecProbabilities == InitProbabilities /\ [][NextProbabilities]_vars

\* ========================================================================
\* The one-round draft (season_sim.py:563-613)
\* ========================================================================
\* sorted(ts, key=lambda t: t.wins): ascending and stable
sort_by_wins_ascending(ts) ==
    LET place(i) == 1 + Cardinality({j \in 1..Len(ts) :
                            \/ wins[ts[j]] < wins[ts[i]]
                            \/ wins[ts[j]] = wins[ts[i]] /\ j < i})
    IN  [k \in 1..Len(ts) |-> ts[CHOOSE i \in 1..Len(ts) : place(i) = k]]

\* the i-th prospect of generate_draft_prospects, a new Player object
Prospect(i) == 900 + i

\* find_worst_player on the team record T (lines 707-723): the first player
\* of active + reserve whose value is below the value of all players before
\* him and not above the value of the players after him; None on an empty
\* team
find_worst_player(T) ==
    LET all_players == T.active_roster \o T.reserve_roster
    IN  IF all_players = <<>> THEN None
        ELSE all_players[CHOOSE i \in 1..Len(all_players) :
                /\ \A j \in 1..(i - 1) :
                      player_value[all_players[j]] > player_value[all_players[i]]
                /\ \A j \in (i + 1)..Len(all_players) :
                      player_value[all_players[j]] >= player_value[all_players[i]]]

\* a league about to hold its draft: teams 1 and 2 have rosters of any size
\* within the limits, the other teams three active players and one in
\* reserve; one roster spot holds the player of least value; team 1 has won
\* a game or not
InitDraft ==
    /\ active_roster = [t \in Teams |-> FixtureRoster]
    /\ losses = [t \in Teams |-> 0]
    /\ ties = [t \in Teams |-> 0]
    /\ team_runs_scored = [t \in Teams |-> 0]
    /\ team_runs_allowed = [t \in Teams |-> 0]
    /\ playoff_wins = [t \in Teams |-> 0]
    /\ playoff_losses = [t \in Teams |-> 0]
    /\ pitching_stats = [p \in Rostered |-> NewPitchingStats]
    /\ batting_gp = [p \in Rostered |-> 0]
    /\ batting_pa = [p \in Rostered |-> 0]
    /\ \E w \in 0..1 : wins = [t \in Teams |-> IF t = 1 THEN w ELSE 0]
    /\ InitSecondRun
    /\ NoAtBatProbabilities
    /\ DefaultPlayer
    /\ object_id = FirstIds
    /\ InitSeasonSimulator(NumTeams)
    /\ InitSimulator(1, 2)
    /\ caller = "Game.play"
    /\ pc = "new"
    /\ winner = None
    /\ result = NoGameResult
    /\ hpc = "idle"
    /\ runs_scored = 0
    /\ batters_faced = 0
    /\ at_bat = NoAtBat
    /\ \E na \in 0..ActiveLimit, nb \in 0..ActiveLimit,
          ra \in 0..ReserveLimit, rb \in 0..ReserveLimit :
          rosters = [t \in Teams |-> IF t = 1 THEN RostersOf(1, na, ra)
                                     ELSE IF t = 2 THEN RostersOf(2, nb, rb)
                                     ELSE RostersOf(t, 3, 1)]
    /\ offer = NoOffer
    /\ executed = "idle"
    /\ player_team = [p \in PlayerObjects |->
                         IF \E t \in Teams : p \in get_all_players(t)
                         THEN team_of(p) ELSE None]
    /\ last_call = NoCall
    /\ NewCareer
    /\ NewStatLines
    /\ draft_pc = "called"
    /\ draft_order = <<>>
    /\ draft_prospects = <<>>
    /\ pick_num = 0
    /\ \E spot \in 1..(ActiveLimit + ReserveLimit) :
          player_value = [p \in PlayerObjects |-> IF roster_index(p) = spot THEN 1 ELSE 2]

\* the draft leaves the games, the records and the calculators alone
DraftFrame ==
    UNCHANGED <<halfVars, gameVars, active_roster, recordVars, playoffRecordVars,
                seasonVars, run2Vars, probVars, devVars, careerVars, statVars>>

\* conduct_one_round_draft up to its loop (lines 570-573)
StartDraft ==
    /\ draft_pc = "called"
    /\ draft_order' = sort_by_wins_ascending(teams)
    /\ draft_prospects' = [i \in 1..Len(teams) |-> Prospect(i)]
    /\ draft_pc' = "picking"
    /\ UNCHANGED <<pick_num, player_value, tradeVars>>
    /\ DraftFrame

\* one pass of the loop of lines 588-611: the team cuts its worst player
\* and adds the prospect to the active roster, or, having no player, adds
\* the prospect to the reserve; the value add_player returns is not looked at
DraftPick ==
    /\ draft_pc = "picking"
    /\ pick_num < Len(draft_order)
    /\ LET team == draft_order[pick_num + 1]
           worst_player == find_worst_player(rosters[team])
           drafted_player == draft_prospects[pick_num + 1]
           cut == remove_player(rosters[team], worst_player)
           after == IF worst_player # None
                    THEN add_player(cut, drafted_player, TRUE)
                    ELSE add_player(rosters[team], drafted_player, FALSE)
           added == drafted_player \in Range(after.active_roster \o after.reserve_roster)
       IN  /\ pick_num + 1 <= Len(draft_prospects)
           /\ rosters' = [rosters EXCEPT ![team] = after]
           /\ player_team' =
                 [p \in DOMAIN player_team \cup {drafted_player} |->
                    IF p = drafted_player THEN (IF added THEN team ELSE None)
                    ELSE IF p = worst_player THEN None
                    ELSE player_team[p]]
    /\ pick_num' = pick_num + 1
    /\ UNCHANGED <<draft_pc, draft_order, draft_prospects, player_value>>
    /\ UNCHANGED <<offer, executed, last_call>>
    /\ DraftFrame

\* the loop is over (line 613)
DraftDone ==
    /\ draft_pc = "picking"
    /\ pick_num = Len(draft_order)
    /\ draft_pc' = "done"
    /\ UNCHANGED <<draft_order, draft_prospects, pick_num, player_value, tradeVars>>
    /\ DraftFrame

NextDraft ==
    \/ StartDraft
    \/ DraftPick
    \/ DraftDone

SpecDraft == InitDraft /\ [][NextDraft]_vars

\* ========================================================================
\* The end of a season: career statistics and team records
\* (models/player.py:121-131, 272-291; season_sim.py:800-851, 901-910)
\* ========================================================================
\* the seasons a league is taken through
MaxSeasons == 2

\* the hits of one season line, and the career total up to which the
\* archive is followed
MaxStat == 2

MaxCareer == 4

\* what the league has played before the season ends: nothing, or the game
\* of team 1 at home against team 2 with one of its three results
PlayedBefore == {"nothing", "home", "away", "tie"}

\* Team.wins, losses and ties after that game (game_sim.py:84-105)
record_after(played, won, t) ==
    IF played = "home" /\ t = (IF won THEN 1 ELSE 2) THEN 1
    ELSE IF played = "away" /\ t = (IF won THEN 2 ELSE 1) THEN 1
    ELSE 0

\* the ascending list of a set of season numbers: list.sort()
RECURSIVE sorted(_)
sorted(S) ==
    IF S = {} THEN <<>>
    ELSE LET m == CHOOSE x \in S : \A y \in S : x <= y
         IN  <<m>> \o sorted(S \ {m})

\* the elements of a list
elements(seq) == {seq[i] : i \in 1..Len(seq)}

\* self.season_batting[season] = deepcopy(batting) (player.py:124)
store_season(season) ==
    [s \in (DOMAIN season_batting) \cup {season} |->
        IF s = season THEN batting_stats ELSE season_batting[s]]

\* _update_career_batting: every counter of the season line is added to the
\* career line; h stands for each of them (player.py:133-152)
update_career_batting == [h |-> career_batting.h + batting_stats.h]

\* Player.complete_season, lines 283-285
track_season(season_number) ==
    IF season_number \in elements(seasons_played) THEN seasons_played
    ELSE sorted(elements(seasons_played) \cup {season_number})

InitCareer ==
    /\ active_roster = [t \in Teams |-> FixtureRoster]
    /\ \E played \in PlayedBefore :
          /\ wins = [t \in Teams |-> record_after(played, TRUE, t)]
          /\ losses = [t \in Teams |-> record_after(played, FALSE, t)]
          /\ ties = [t \in Teams |-> IF played = "tie" /\ t \in {1, 2} THEN 1 ELSE 0]
    /\ team_runs_scored = [t \in Teams |-> 0]
    /\ team_runs_allowed = [t \in Teams |-> 0]
    /\ \E playoff \in BOOLEAN :
          /\ playoff_wins = [t \in Teams |-> IF playoff /\ t = 1 THEN 1 ELSE 0]
          /\ playoff_losses = [t \in Teams |-> IF playoff /\ t = 2 THEN 1 ELSE 0]
    /\ pitching_stats = [p \in Rostered |-> NewPitchingStats]
    /\ batting_gp = [p \in Rostered |-> 0]
    /\ batting_pa = [p \in Rostered |-> 0]
    /\ InitSecondRun
    /\ NoAtBatProbabilities
    /\ DefaultPlayer
    /\ object_id = FirstIds
    /\ NoTrade
    /\ InitSeasonSimulator(NumTeams)
    /\ InitSimulator(1, 2)
    /\ caller = "Game.play"
    /\ pc = "new"
    /\ winner = None
    /\ result = NoGameResult
    /\ hpc = "idle"
    /\ runs_scored = 0
    /\ batters_faced = 0
    /\ at_bat = NoAtBat
    /\ NoDraft
    /\ NewCareer
    /\ NewStatLines

\* the end of a season leaves the games, the schedule and the calculators alone
CareerFrame ==
    UNCHANGED <<halfVars, gameVars, active_roster, seasonVars, tradeVars, run2Vars,
                probVars, devVars, draftVars, statVars>>

\* update_stats on a hit: batter.batting_stats.h += 1 (game_sim.py:344-345)
update_stats_hit ==
    /\ batting_stats.h < MaxStat
    /\ batting_stats' = [batting_stats EXCEPT !.h = @ + 1]
    /\ UNCHANGED <<season_batting, career_batting, seasons_played, current_season,
                   recordVars, playoffRecordVars>>
    /\ CareerFrame

\* Player.complete_season (player.py:272-285) with add_season_stats
\* (player.py:121-131)
complete_season(season_number) ==
    /\ career_batting.h + batting_stats.h <= MaxCareer
    /\ season_batting' = store_season(season_number)
    /\ career_batting' = update_career_batting
    /\ seasons_played' = track_season(season_number)
    /\ UNCHANGED <<batting_stats, current_season, recordVars, playoffRecordVars>>
    /\ CareerFrame

\* Player.reset_season_stats (player.py:287-291)
reset_season_stats ==
    /\ batting_stats' = NewBattingStats
    /\ UNCHANGED <<season_batting, career_batting, seasons_played, current_season,
                   recordVars, playoffRecordVars>>
    /\ CareerFrame

\* SeasonSimulator.complete_season_for_all_players (season_sim.py:846-851):
\* complete_season(self.current_season), then reset_season_stats
complete_season_for_all_players ==
    /\ career_batting.h + batting_stats.h <= MaxCareer
    /\ season_batting' = store_season(current_season)
    /\ career_batting' = update_career_batting
    /\ seasons_played' = track_season(current_season)
    /\ batting_stats' = NewBattingStats
    /\ pitching_stats' = [p \in Rostered |-> NewPitchingStats]
    /\ batting_gp' = [p \in Rostered |-> 0]
    /\ batting_pa' = [p \in Rostered |-> 0]
    /\ UNCHANGED <<current_season, wins, losses, ties, team_runs_scored,
                   team_runs_allowed, playoffRecordVars>>
    /\ CareerFrame

\* SeasonSimulator.progress_to_next_season (season_sim.py:800-844):
\* complete_season_for_all_players, reset_team_records (lines 901-910, which
\* assign wins, losses, playoff_wins and playoff_losses) and the increment of
\* current_season. The aging, development and draft steps between them write
\* ages, attributes and rosters, which the sections of the attribute writers
\* and of the draft follow.
progress_to_next_season ==
    /\ current_season <= MaxSeasons
    /\ career_batting.h + batting_stats.h <= MaxCareer
    /\ season_batting' = store_season(current_season)
    /\ career_batting' = update_career_batting
    /\ seasons_played' = track_season(current_season)
    /\ batting_stats' = NewBattingStats
    /\ pitching_stats' = [p \in Rostered |-> NewPitchingStats]
    /\ batting_gp' = [p \in Rostered |-> 0]
    /\ batting_pa' = [p \in Rostered |-> 0]
    /\ wins' = [t \in Teams |-> 0]
    /\ losses' = [t \in Teams |-> 0]
    /\ playoff_wins' = [t \in Teams |-> 0]
    /\ playoff_losses' = [t \in Teams |-> 0]
    /\ current_season' = current_season + 1
    /\ UNCHANGED <<ties, team_runs_scored, team_runs_allowed>>
    /\ CareerFrame

NextCareer ==
    \/ update_stats_hit
    \/ \E season_number \in 1..MaxSeasons : complete_season(season_number)
    \/ reset_season_stats
    \/ complete_season_for_all_players
    \/ progress_to_next_season

SpecCareer == InitCareer /\ [][NextCareer]_vars

\* ========================================================================
\* The counters of update_stats (game_sim.py:339-390), one batter against
\* one pitcher
\* ========================================================================
\* the plate appearances followed
MaxPlate == 4

\* "word" in at_bat.details.lower(), for the details the engine writes
\* (game_sim.py:220-301, 392-478)
mentions(details, word) ==
    CASE word = "home run" -> details = "Home run"
      [] word = "single" -> details \in {"Single", "Single (fielding error)",
                                         "Single on fielding mistake"}
      [] word = "double" -> details \in {"Double", "Double (fielding error)"}
      [] word = "triple" -> details \in {"Triple", "Triple (fielding error)"}
      [] OTHER -> FALSE

\* update_stats with the strikeout left out of the strikes thrown
update_pitcher_stats_StrikeoutNoStrike(stats, ab) ==
    LET counted == [stats EXCEPT !.pt = @ + 1]
    IN  IF ab.outcome = "hit" THEN [counted EXCEPT !.h = @ + 1]
        ELSE IF ab.outcome = "walk" THEN [counted EXCEPT !.bb = @ + 1]
        ELSE IF ab.outcome = "hbp" THEN [counted EXCEPT !.hbp = @ + 1]
        ELSE IF ab.outcome = "strikeout" THEN [counted EXCEPT !.k = @ + 1]
        ELSE [counted EXCEPT !.st = @ + 1]

\* simulate_half_inning, lines 180-185: the runners the at-bat drives in
additional_runs(b, ab) ==
    IF ab.outcome \in {"walk", "hbp"} THEN count_runners_that_will_score(b, 1)
    ELSE IF ab.outcome = "hit" THEN count_runners_that_will_score(b, ab.bases_advanced)
    ELSE 0

\* update_stats, lines 341-375: the batter
update_batter_stats(stats, ab, additional_rbi) ==
    LET counted == [stats EXCEPT !.pa = @ + 1]
    IN  IF ab.outcome = "hit"
        THEN LET hit == [counted EXCEPT
                            !.h = @ + 1,
                            !.ab = @ + 1,
                            !.rbi = IF mentions(ab.details, "home run")
                                    THEN @ + ab.runs_scored
                                    ELSE @ + ab.runs_scored + additional_rbi]
             IN  IF mentions(ab.details, "single") THEN hit
                 ELSE IF mentions(ab.details, "double") THEN [hit EXCEPT !.doubles = @ + 1]
                 ELSE IF mentions(ab.details, "triple") THEN [hit EXCEPT !.triples = @ + 1]
                 ELSE IF mentions(ab.details, "home run") THEN [hit EXCEPT !.hr = @ + 1]
                 ELSE hit
        ELSE IF ab.outcome = "walk"
        THEN [counted EXCEPT !.bb = @ + 1, !.rbi = @ + additional_rbi]
        ELSE IF ab.outcome = "hbp"
        THEN [counted EXCEPT !.hbp = @ + 1, !.rbi = @ + additional_rbi]
        ELSE IF ab.outcome = "strikeout"
        THEN [counted EXCEPT !.k = @ + 1, !.ab = @ + 1]
        ELSE IF ab.outcome = "out"
        THEN [counted EXCEPT !.ab = @ + 1]
        ELSE counted

\* update_stats, lines 377-390: the pitcher
update_pitcher_stats(stats, ab) ==
    LET counted == [stats EXCEPT !.pt = @ + 1]
    IN  IF ab.outcome = "hit" THEN [counted EXCEPT !.h = @ + 1]
        ELSE IF ab.outcome = "walk" THEN [counted EXCEPT !.bb = @ + 1]
        ELSE IF ab.outcome = "hbp" THEN [counted EXCEPT !.hbp = @ + 1]
        ELSE IF ab.outcome = "strikeout" THEN [counted EXCEPT !.k = @ + 1, !.st = @ + 1]
        ELSE [counted EXCEPT !.st = @ + 1]

\* a batter and a pitcher with new statistics in a set-up game; the pitcher
\* throws at the speed limit or just above it
InitStats == InitHalf

\* one at-bat of simulate_half_inning with its update_stats call (lines
\* 177-188), with any runners on base
AtBatStats ==
    /\ batter_line.pa < MaxPlate
    /\ \E b \in BaseStates :
          \E ab \in simulate_at_bat(b, pitcher) :
              /\ batter_line' = update_batter_stats(batter_line, ab, additional_runs(b, ab))
              /\ pitcher_line' = update_pitcher_stats(pitcher_line, ab)
    /\ UNCHANGED <<halfVars, gameVars, active_roster, recordVars, playoffRecordVars,
                   seasonVars, tradeVars, run2Vars, probVars, devVars, draftVars,
                   careerVars>>

NextStats == AtBatStats

SpecStats == InitStats /\ [][NextStats]_vars

\* ========================================================================
\* One attribute of a player and its writers (models/player.py,
\* simulation/player_dev.py, simulation/development_events.py)
\* ========================================================================
\* the range of max(1, min(100, ...))
MinAttribute == 1

MaxAttribute == 100

\* the largest change of one development step, and how far outside the
\* range a constructor argument lies
MaxChange == 3

\* Player(name, velocity=v): the dataclass stores the argument it is given
ConstructorArguments == (MinAttribute - MaxChange)..(MaxAttribute + MaxChange)

\* max(1, min(100, v)) (player_dev.py:192, development_events.py:39)
clamp(v) ==
    LET low == IF v < MaxAttribute THEN v ELSE MaxAttribute
    IN  IF low > MinAttribute THEN low ELSE MinAttribute

\* the prospects of generate_realistic_rookie and generate_veteran_prospect
\* and the rookies of generate_rookie_attributes draw each attribute with
\* random.randint from a range between 30 and 90
ProspectValues == 30..90

\* the (min_change, max_change) pairs of the callers and of the event tables
ChangeRanges ==
    {r \in (-MaxChange..MaxChange) \X (-MaxChange..MaxChange) : r[1] # r[2]}

\* a player is constructed with some value for the attribute
InitDevelopment ==
    /\ active_roster = [t \in Teams |-> FixtureRoster]
    /\ InitRecords
    /\ InitSecondRun
    /\ NoAtBatProbabilities
    /\ object_id = FirstIds
    /\ NoTrade
    /\ InitSeasonSimulator(NumTeams)
    /\ InitSimulator(1, 2)
    /\ caller = "Game.play"
    /\ pc = "new"
    /\ winner = None
    /\ result = NoGameResult
    /\ hpc = "idle"
    /\ runs_scored = 0
    /\ batters_faced = 0
    /\ at_bat = NoAtBat
    /\ NoDraft
    /\ NewCareer
    /\ NewStatLines
    /\ attribute \in ConstructorArguments
    /\ last_write = "Player"
    /\ velocity = [p \in Rostered |-> 50]

\* the writers leave everything but the attribute alone
DevelopmentFrame ==
    UNCHANGED <<halfVars, gameVars, active_roster, recordVars, playoffRecordVars,
                seasonVars, tradeVars, run2Vars, probVars, draftVars, careerVars, statVars, velocity>>

\* PlayerDevelopment.improve_attribute (player_dev.py:188-193); its callers
\* pass min_change <= max_change
improve_attribute ==
    /\ last_write # "ValueError"
    /\ \E r \in ChangeRanges :
          /\ r[1] < r[2]
          /\ \E change \in r[1]..r[2] :
                 /\ attribute' = clamp(attribute + change)
                 /\ last_write' = "improve_attribute"
    /\ DevelopmentFrame

\* DevelopmentEvent.apply_to_player (development_events.py:31-47), for one
\* entry of attribute_changes. The tables of negative events hold pairs such
\* as (-1, -2), on which random.randint raises ValueError
apply_to_player ==
    /\ last_write # "ValueError"
    /\ \E r \in ChangeRanges :
          IF r[1] > r[2]
          THEN /\ last_write' = "ValueError"
               /\ UNCHANGED attribute
          ELSE \E change \in r[1]..r[2] :
                 /\ attribute' = clamp(attribute + change)
                 /\ last_write' = "apply_to_player"
    /\ DevelopmentFrame

\* PlayerDevelopment.generate_rookie_attributes (player_dev.py:195-211)
generate_rookie_attributes ==
    /\ last_write # "ValueError"
    /\ attribute' \in ProspectValues
    /\ last_write' = "generate_rookie_attributes"
    /\ DevelopmentFrame

NextDevelopment ==
    \/ improve_attribute
    \/ apply_to_player
    \/ generate_rookie_attributes

SpecDevelopment == InitDevelopment /\ [][NextDevelopment]_vars

\* ========================================================================
\* Properties of the half-inning (SpecHalf)
\* ========================================================================
\* a step of the while loop that played an at-bat
AtBatPlayed == hpc = "loop" /\ batters_faced' = batters_faced + 1

occupied(b, i) == b[i] # NoRunner

C2_OutsInRange ==
    /\ outs \in 0..3
    /\ (hpc = "loop" /\ batters_faced = 0) =>
           (outs = 0 /\ bases = EmptyBases /\ runs_scored = 0)
    /\ hpc = "returned" => outs = 3

\* C2 witness: a half-inning that returned through the safety cap: 30 batters
\* faced, the last of them not put out.
C2_Witness ==
    /\ hpc = "returned"
    /\ outs = 3
    /\ batters_faced = max_batters
    /\ at_bat.outcome \in {"hit", "walk", "hbp"}

\* the bases after a walk on which only forced runners move
ForcedAdvance(b) ==
    [p \in BaseIdx |->
        IF p = 0 THEN "batter"
        ELSE IF p = 1 THEN (IF occupied(b, 0) THEN b[0] ELSE b[1])
        ELSE (IF occupied(b, 0) /\ occupied(b, 1) THEN b[1] ELSE b[2])]

BasesLoaded(b) == \A i \in BaseIdx : occupied(b, i)

\* C8: on a walk or a hit-by-pitch only forced runners advance: the batter
\* takes first, a runner moves up one base only if every base behind is
\* occupied, and a run scores only when the bases were loaded.
C8_WalkAdvancesForcedRunnersOnly ==
    [][(AtBatPlayed /\ at_bat'.outcome \in {"walk", "hbp"}) =>
          /\ bases' = ForcedAdvance(bases)
          /\ runs_scored' = runs_scored + (IF BasesLoaded(bases) THEN 1 ELSE 0)]_vars

\* C9: a hit with bases_advanced = n in 1..4 moves every runner from index i
\* to i + n, scores and removes the runners whose new index is 3 or more,
\* puts the batter on n - 1 when n < 4 and scores the batter when n = 4; the
\* bases keep 3 slots and no runner is lost by two landing on one base.
C9_HitAdvancesEveryRunner ==
    [][(AtBatPlayed /\ at_bat'.outcome = "hit") =>
          LET n == at_bat'.bases_advanced
              scoring == {i \in BaseIdx : occupied(bases, i) /\ i + n >= 3}
              staying == {i \in BaseIdx : occupied(bases, i) /\ i + n < 3}
          IN  /\ n \in 1..4
              /\ DOMAIN bases' = BaseIdx
              /\ \A p \in BaseIdx :
                    occupied(bases', p) <=>
                        \/ \E i \in staying : i + n = p
                        \/ n < 4 /\ p = n - 1
              /\ runs_scored' = runs_scored + at_bat'.runs_scored
                                 + Cardinality(scoring) + (IF n = 4 THEN 1 ELSE 0)
              /\ count_runners(bases') =
                    Cardinality(staying) + (IF n < 4 THEN 1 ELSE 0)]_vars

\* C9 witness: a double with runners on first and second: the runner from
\* second has scored, the runner from first stands on third, the batter on
\* second.
C9_Witness ==
    /\ at_bat.outcome = "hit"
    /\ at_bat.bases_advanced = 2
    /\ batters_faced = 3
    /\ runs_scored = 1
    /\ bases = [i \in BaseIdx |-> IF i = 0 THEN NoRunner ELSE "batter"]

\* C15: every at-bat changes exactly one of outs and bases. A strikeout or
\* an out adds exactly one out and leaves the bases and the runs alone; a
\* walk, a hit-by-pitch or a hit leaves the outs alone and changes the bases
\* or the runs. In every case exactly one batter of the lineup gains one
\* plate appearance and the pitcher one pitch.
C15_AtBatChangesOutsOrBases ==
    [][AtBatPlayed =>
          /\ at_bat'.outcome \in {"strikeout", "out", "walk", "hbp", "hit"}
          /\ at_bat'.outcome \in {"strikeout", "out"}
                => (outs' = outs + 1 /\ bases' = bases /\ runs_scored' = runs_scored)
          /\ at_bat'.outcome \in {"walk", "hbp", "hit"}
                => (outs' = outs /\ (bases' # bases \/ runs_scored' # runs_scored))
          /\ \E b \in lineup :
                /\ batting_pa'[b] = batting_pa[b] + 1
                /\ \A q \in Rostered \ {b} : batting_pa'[q] = batting_pa[q]
          /\ pitching_stats'[pitcher].pt = pitching_stats[pitcher].pt + 1]_vars

\* a home run with the bases empty has been played (the bases stay empty,
\* the runs change), after a strikeout and a walk in the same half-inning
C15_Witness ==
    /\ hpc = "loop"
    /\ at_bat.outcome = "hit"
    /\ at_bat.bases_advanced = 4
    /\ outs = 1
    /\ batters_faced >= 3
    /\ bases = EmptyBases
    /\ \A b \in lineup : batting_pa[b] >= 1

\* C16: simulate_half_inning terminates after at most 30 at-bats: it never
\* faces a 31st batter; once 30 batters have been faced with fewer than 3
\* outs, the next step sets outs to 3 and keeps the runs; and every call
\* returns, with 3 outs.
C16_HalfInningEndsWithinCap ==
    /\ [](batters_faced <= 30)
    /\ [][(hpc = "loop" /\ batters_faced >= 30 /\ outs < 3)
             => (outs' = 3 /\ runs_scored' = runs_scored
                 /\ batters_faced' = batters_faced /\ hpc' = "loop")]_vars
    /\ [][(hpc = "loop" /\ hpc' = "returned") => (outs = 3 /\ runs_scored' = runs_scored)]_vars
    /\ <>(hpc = "returned" /\ outs = 3)

\* a half-inning of 30 batters has returned although its last at-bat was
\* not an out: the cap ended it
C16_Witness ==
    /\ hpc = "returned"
    /\ batters_faced = 30
    /\ at_bat.outcome \in {"walk", "hbp", "hit"}
    /\ outs = 3

\* C35: when the pitcher's velocity exceeds 75, every at-bat against that
\* pitcher is an automatic walk: the half-inning records no out through any
\* at-bat, ends only through the 30-batter safety cap, and returns exactly
\* 27 runs
C35_SpeedLimitWalksEveryBatter ==
    (hpc # "idle" /\ velocity[pitcher] > speed_limit) =>
        /\ at_bat.outcome \in {"none", "walk"}
        /\ outs \in {0, 3}
        /\ outs = 3 => batters_faced = max_batters
        /\ runs_scored = IF batters_faced > 3 THEN batters_faced - 3 ELSE 0
        /\ hpc = "returned" => runs_scored = 27

\* a half-inning pitched above the speed limit has returned
C35_Witness ==
    /\ hpc = "returned"
    /\ velocity[pitcher] > speed_limit
    /\ batters_faced = max_batters
    /\ at_bat.details = "Speed limit violation - automatic ball"

\* ========================================================================
\* Properties of the game (Spec)
\* ========================================================================
\* a step that played a half-inning of the game
HalfPlayed == pc \in {"top", "bottom"} /\ pc' # pc

gamePlayVars == <<inning, away_score, home_score, is_home_batting, outs, runs_scored>>

\* C3: a half-inning of inning 1 or 2 that produces 6 or more runs ends the
\* game at once: game_over is set, the game returns, and no half-inning is
\* played after it (after the away half, the home half of the inning is not).
C3_MercyEndsGameAtOnce ==
    [][/\ (HalfPlayed /\ inning < 3 /\ runs_scored' >= 6) =>
              (game_over' /\ pc' = "game_returned" /\ inning' = inning)
       /\ game_over => (game_over' /\ UNCHANGED gamePlayVars)]_vars

\* C3 witness: the away side scored 6 or more in the top of inning 1, the
\* game is over and recorded, and the home side never batted.
C3_Witness ==
    /\ pc = "result_returned"
    /\ game_over
    /\ inning = 1
    /\ ~is_home_batting
    /\ away_score >= 6
    /\ home_score = 0

\* C25: the mercy decision of _simulate_full_game after a half-inning is the
\* value of MLWRules.check_mercy_rule(inning, runs of the half-inning), for
\* every inning and every run total.  After an away half, and after a home
\* half before inning 3, the game is over exactly when check_mercy_rule
\* holds (after a home half of inning 3 or later the game can also end
\* decided, and check_mercy_rule is false); and the rule answers the four
\* cases of the rules test as the test expects
C25_MercyAgreesWithRules ==
    /\ [][HalfPlayed =>
             /\ check_mercy_rule(inning, runs_scored') => game_over'
             /\ (~is_home_batting' \/ inning < 3) =>
                    (game_over' <=> check_mercy_rule(inning, runs_scored'))
             /\ check_mercy_rule(inning, runs_scored') <=> (inning < 3 /\ runs_scored' >= 6)]_vars
    /\ [](/\ ~check_mercy_rule(1, 5)
          /\ check_mercy_rule(1, 6)
          /\ check_mercy_rule(1, 7)
          /\ ~check_mercy_rule(3, 8))

\* the away side scored 8 in the top of inning 3 and the game goes on
C25_Witness ==
    /\ pc = "bottom"
    /\ inning = 3
    /\ ~is_home_batting
    /\ runs_scored = 8
    /\ ~game_over

\* C29: every game played, of the regular season or of the playoffs, ended
\* by the mercy rule in inning 1 or after extra innings, credits each of its
\* two starting pitchers exactly 3 innings pitched, one game pitched and one
\* game started
C29_StartersGetThreeInnings ==
    pc \notin {"new", "pitchers_set"} =>
        /\ current_pitcher_home # current_pitcher_away
        /\ \A p \in {current_pitcher_home, current_pitcher_away} :
              /\ pitching_stats[p].ip = 3
              /\ pitching_stats[p].gp = 1
              /\ pitching_stats[p].gs = 1

\* a playoff game is over in an extra inning
C29_Witness ==
    /\ caller = "play_series"
    /\ game_over
    /\ inning > 3
    /\ pitching_stats[current_pitcher_away].ip = 3

\* C34: whenever a game is over with equal scores, it ended through the
\* mercy rule in inning 1 or 2; a game that reaches the end of inning 3 or
\* later never finishes tied
C34_TiesOnlyByMercy ==
    /\ (game_over /\ home_score = away_score)
          => /\ inning \in {1, 2}
             /\ check_mercy_rule(inning, runs_scored)
    /\ (game_over /\ inning >= 3) => home_score # away_score

\* a game stopped by the mercy rule in the bottom of inning 2 with the
\* scores level
C34_Witness ==
    /\ game_over
    /\ home_score = away_score
    /\ home_score > 0
    /\ inning = 2

\* C4: without a mercy trigger the game does not end before the home half of
\* inning 3 is complete; after the home half of an inning n >= 3 the game is
\* over exactly when the scores differ, and on a tie it is not over and
\* inning n + 1 is played: its away half, which never ends the game, and then
\* its home half.
C4_RegulationAndExtraInnings ==
    [][/\ (game_over' /\ ~game_over) =>
              \/ inning' < 3 /\ runs_scored' >= 6
              \/ inning' >= 3 /\ is_home_batting' /\ home_score' # away_score'
       /\ (HalfPlayed /\ pc = "bottom" /\ inning >= 3) =>
              /\ game_over' <=> home_score' # away_score'
              /\ home_score' = away_score' =>
                    (pc' = "top" /\ inning' = inning + 1)
       /\ (HalfPlayed /\ pc = "top" /\ inning >= 3) =>
              (~game_over' /\ pc' = "bottom" /\ inning' = inning)]_vars

\* C4 witness: a game tied after inning 3 and decided in inning 4.
C4_Witness ==
    /\ game_over
    /\ inning = 4
    /\ is_home_batting
    /\ home_score # away_score
    /\ home_score - runs_scored <= away_score

TeamGames(t) == wins[t] + losses[t] + ties[t]

\* C6: Game.play records the game once: each team's wins + losses + ties has
\* grown by exactly 1 (the records start at zero) and each team's runs_scored
\* and runs_allowed by exactly the final scores.
C6_GamePlayRecordsOnce ==
    pc = "done" =>
        /\ TeamGames(home_team) = 1
        /\ TeamGames(away_team) = 1
        /\ team_runs_scored[home_team] = home_score
        /\ team_runs_allowed[home_team] = away_score
        /\ team_runs_scored[away_team] = away_score
        /\ team_runs_allowed[away_team] = home_score

\* the pitching w and l of every player other than the two named are unchanged
OthersKeep(p1, p2) ==
    \A p \in DOMAIN pitching_stats :
        p \notin {p1, p2} =>
            /\ pitching_stats'[p].w = pitching_stats[p].w
            /\ pitching_stats'[p].l = pitching_stats[p].l

\* C7: simulate_game_with_result applies exactly one of three updates: a home
\* win (home wins + 1, away losses + 1, winner the home team), an away win
\* (away wins + 1, home losses + 1, winner the away team) or a tie (both
\* teams' ties + 1, winner None). The winner's starter gets w + 1, the loser's
\* starter l + 1; on a tie no pitcher's w or l changes.
C7_ExactlyOneResultUpdate ==
    [][(pc = "game_returned" /\ pc' = "result_returned") =>
          LET h == home_team
              a == away_team
              ph == current_pitcher_home
              pa == current_pitcher_away
              Rest(f, ts) == \A t \in Teams \ ts : f'[t] = f[t]
          IN  /\ Rest(wins, {h, a}) /\ Rest(losses, {h, a}) /\ Rest(ties, {h, a})
              /\ \/ /\ home_score > away_score
                    /\ winner' = h
                    /\ wins'[h] = wins[h] + 1 /\ losses'[a] = losses[a] + 1
                    /\ wins'[a] = wins[a] /\ losses'[h] = losses[h]
                    /\ ties' = ties
                    /\ pitching_stats'[ph].w = pitching_stats[ph].w + 1
                    /\ pitching_stats'[ph].l = pitching_stats[ph].l
                    /\ pitching_stats'[pa].l = pitching_stats[pa].l + 1
                    /\ pitching_stats'[pa].w = pitching_stats[pa].w
                    /\ OthersKeep(ph, pa)
                 \/ /\ away_score > home_score
                    /\ winner' = a
                    /\ wins'[a] = wins[a] + 1 /\ losses'[h] = losses[h] + 1
                    /\ wins'[h] = wins[h] /\ losses'[a] = losses[a]
                    /\ ties' = ties
                    /\ pitching_stats'[pa].w = pitching_stats[pa].w + 1
                    /\ pitching_stats'[pa].l = pitching_stats[pa].l
                    /\ pitching_stats'[ph].l = pitching_stats[ph].l + 1
                    /\ pitching_stats'[ph].w = pitching_stats[ph].w
                    /\ OthersKeep(ph, pa)
                 \/ /\ home_score = away_score
                    /\ winner' = None
                    /\ ties'[h] = ties[h] + 1 /\ ties'[a] = ties[a] + 1
                    /\ wins' = wins /\ losses' = losses
                    /\ OthersKeep(None, None)]_vars

\* C7 witness: simulate_game_with_result has recorded a tied game (6-6 by the
\* mercy rule in inning 2): both teams have a tie, no pitcher a decision.
C7_Witness ==
    /\ pc = "result_returned"
    /\ home_score = away_score
    /\ winner = None
    /\ ties[home_team] = 1
    /\ ties[away_team] = 1
    /\ \A p \in DOMAIN pitching_stats : pitching_stats[p].w = 0 /\ pitching_stats[p].l = 0

\* C17: a game simulation never hangs.  Every run of _simulate_full_game
\* eventually sets game_over and returns, given that the score does not stay
\* tied after every inning forever, and the loop is left only with game_over
\* set
C17_GameNeverHangs ==
    /\ <>(game_over /\ pc = "game_returned")
    /\ [][(pc \in {"top", "bottom"} /\ pc' = "game_returned") => game_over']_vars

\* a game that was tied after regulation, went to an extra inning and has
\* returned with a winner
C17_Witness ==
    /\ pc = "game_returned"
    /\ game_over
    /\ inning > RegulationInnings
    /\ home_score # away_score

\* ========================================================================
\* Properties of the pitcher selection (SpecSelect)
\* ========================================================================
\* C21: when every player of the active roster already has 2 or more starts
\* recorded in the series, the regular-season selection does not fail: it
\* returns a player of the roster with the fewest recorded starts, whatever
\* the cap
C21_FallbackToLeastUsed ==
    [][(pc = "select" /\ caller = "play_season"
          /\ RosterOf(home_team) # {}
          /\ \A q \in RosterOf(home_team) : series_pitcher_usage'[1][q] >= 2)
          => /\ pc' = "selected"
             /\ current_pitcher_home' \in RosterOf(home_team)
             /\ \A q \in RosterOf(home_team) :
                   series_pitcher_usage'[1][current_pitcher_home']
                       <= series_pitcher_usage'[1][q]]_vars

\* a roster of several players, all at the cap or over it and not equally
\* used: the selected player is one with 2 starts
C21_Witness ==
    /\ pc = "selected"
    /\ caller = "play_season"
    /\ Len(active_roster[home_team]) >= 2
    /\ \A q \in RosterOf(home_team) : series_pitcher_usage[1][q] >= 2
    /\ \E q \in RosterOf(home_team) : series_pitcher_usage[1][q] = 3
    /\ series_pitcher_usage[1][current_pitcher_home] = 2

\* ========================================================================
\* Properties of the at-bat probabilities (SpecProbabilities)
\* ========================================================================
\* C30: when the unnormalized total of the four raw outcome probabilities is
\* below the small-total threshold, calculate_outcome_probabilities returns
\* the fixed safe distribution: strikeout 25%, walk 8%, ball in play 15%,
\* home run 2% and the remaining 50% out
C30_SmallTotalGivesSafeDistribution ==
    (/\ probabilities # NoProbabilities
     /\ raw_total(p_strikeout_raw, p_walk_raw, p_hit_raw, p_homerun_raw) < small_total)
        => probabilities = [strikeout |-> 25 * (Unit \div 100),
                            walk |-> 8 * (Unit \div 100),
                            ball_in_play |-> 15 * (Unit \div 100),
                            homerun |-> 2 * (Unit \div 100),
                            out |-> 50 * (Unit \div 100)]

\* the five probabilities returned, added up
probability_sum ==
    probabilities.strikeout + probabilities.walk + probabilities.ball_in_play
        + probabilities.homerun + probabilities.out

\* C31: the five outcome probabilities calculate_outcome_probabilities
\* returns are each >= 0 and sum to 1.0 within epsilon, here the two units
\* that four quotients rounded to the nearest unit can be off by
C31_ProbabilitiesSumToOne ==
    probabilities # NoProbabilities =>
        /\ probabilities.strikeout >= 0
        /\ probabilities.walk >= 0
        /\ probabilities.ball_in_play >= 0
        /\ probabilities.homerun >= 0
        /\ probabilities.out >= 0
        /\ probability_sum >= Unit - 2
        /\ probability_sum <= Unit + 2

\* the four quotients were rounded up past 1.0 and the remainder for the
\* outs was raised to 0
C31_Witness ==
    /\ probabilities # NoProbabilities
    /\ raw_total(p_strikeout_raw, p_walk_raw, p_hit_raw, p_homerun_raw) >= small_total
    /\ probabilities.out = 0
    /\ probability_sum > Unit

\* ========================================================================
\* Properties of the player attributes (SpecDevelopment)
\* ========================================================================
\* C32: the attribute of a player is an integer in [1,100] in every
\* reachable state: every write to it, player construction with any value
\* included, clamps to that range
C32_AttributesInRange ==
    attribute \in MinAttribute..MaxAttribute

\* ========================================================================
\* Properties of the draft (SpecDraft)
\* ========================================================================
\* the number of players of team t
roster_size(t) == Len(rosters[t].active_roster) + Len(rosters[t].reserve_roster)

\* C33: conduct_one_round_draft keeps every team's total roster size
\* unchanged: a team that has at least one player loses exactly its
\* lowest-value player and gains exactly one drafted prospect, whether the
\* cut player was on the active or the reserve roster and whatever the
\* roster sizes were
C33_DraftKeepsRosterSize ==
    [][\A t \in Teams :
          (/\ draft_pc = "picking"
           /\ pick_num' = pick_num + 1
           /\ draft_order[pick_num + 1] = t
           /\ get_all_players(t) # {})
          => \E worst \in get_all_players(t) :
                /\ worst = find_worst_player(rosters[t])
                /\ get_all_players(t)' =
                      (get_all_players(t) \ {worst}) \cup {draft_prospects[pick_num + 1]}
                /\ roster_size(t)' = roster_size(t)]_vars

rostered_count ==
    Len(rosters[offer.team_a].active_roster) + Len(rosters[offer.team_a].reserve_roster)
    + Len(rosters[offer.team_b].active_roster) + Len(rosters[offer.team_b].reserve_roster)

\* C18: execute_trade of an approved offer moves players and never shares or
\* loses them.  Afterwards every player named in the offer is on the
\* receiving team's roster and not on the other team's, and the number of
\* rostered players over the two teams is what it was, whatever the sizes of
\* the two rosters
C18_TradeMovesPlayers ==
    [][(executed = "called" /\ executed' = "True")
          => /\ \A p \in Range(offer.players_a) :
                   /\ p \in get_all_players(offer.team_b)'
                   /\ p \notin get_all_players(offer.team_a)'
             /\ \A p \in Range(offer.players_b) :
                   /\ p \in get_all_players(offer.team_a)'
                   /\ p \notin get_all_players(offer.team_b)'
             /\ rostered_count' = rostered_count]_vars

\* ========================================================================
\* Properties of the series rotation (SpecSeries)
\* ========================================================================
\* the games of series s in which team t plays
Appearances(s, t) ==
    Cardinality({k \in 1..Len(series_schedule[s]) :
                    t \in {series_schedule[s][k][1], series_schedule[s][k][2]}})

RECURSIVE StartsUpTo(_, _)
\* the starts play_season has recorded for player p in the series 1..s
StartsUpTo(s, p) ==
    IF s = 0 THEN 0 ELSE series_pitcher_usage[s][p] + StartsUpTo(s - 1, p)

\* the starts recorded per series are the games the players started
UsageIsGamesStarted ==
    pc = "series" =>
        \A p \in Rostered : pitching_stats[p].gs = StartsUpTo(Len(series_pitcher_usage), p)

\* C5 as stated: in the regular season no player of any team, whatever the
\* size of its roster (1 and up) and the number of its games in the series
\* (1 to 3), starts more than 2 of the games of one series.
C5_NoPlayerStartsMoreThanTwice ==
    \A s \in DOMAIN series_pitcher_usage : \A p \in Rostered :
        series_pitcher_usage[s][p] <= 2

\* C5 amended: in the regular season no player of a team with at least two
\* players starts more than 2 of the games of one series, whatever the
\* number of the team's games in the series; the starts counted are the games
\* the players started.
C5_RotationCapWithTwoPlayers ==
    /\ UsageIsGamesStarted
    /\ \A s \in DOMAIN series_pitcher_usage : \A p \in Rostered :
          Len(active_roster[team_of(p)]) >= 2 => series_pitcher_usage[s][p] <= 2

\* a team of at least two players has played all three games of a finished
\* series and one of its players started two of them
C5_Witness ==
    /\ pc = "series"
    /\ game_num = games_per_series
    /\ \E p \in Rostered :
          /\ Len(active_roster[team_of(p)]) >= 2
          /\ Appearances(series_num, team_of(p)) = 3
          /\ series_pitcher_usage[series_num][p] = 2

\* player p is a choice the rotation rule allows for team t under the usage
\* u of the series: eligible, with the fewest starts of the eligible players,
\* and of the highest skill among those
RotationChoice(p, t, u) ==
    LET eligible == {q \in RosterOf(t) : u[q] < 2}
    IN  eligible # {} =>
            /\ p \in eligible
            /\ \A q \in eligible : u[p] <= u[q]
            /\ \A q \in eligible : u[q] = u[p] => skill(p) >= skill(q)

League == {teams[i] : i \in 1..Len(teams)}

\* the games of the schedule between teams a and b, either one at home
PairGames(a, b) ==
    Cardinality({k \in 1..Len(schedule) : {schedule[k][1], schedule[k][2]} = {a, b}})

\* C11: once generate_schedule has run on N teams, the schedule has exactly
\* 3*N*(N-1)/2 games, no game pairs a team with itself, and every unordered
\* pair of distinct teams meets in exactly 3 games, whatever the shuffle.
C11_TripleRoundRobin ==
    pc # "season" =>
        /\ 2 * Len(schedule) = 3 * Len(teams) * (Len(teams) - 1)
        /\ \A k \in 1..Len(schedule) : schedule[k][1] # schedule[k][2]
        /\ \A a \in League, b \in League : a # b => PairGames(a, b) = 3

\* generate_schedule has just returned a shuffled schedule for a league of
\* NumTeams teams
C11_Witness ==
    /\ pc = "scheduled"
    /\ Len(teams) = NumTeams
    /\ Len(schedule) > 0
    /\ schedule # round_robin(teams)

C26_SeriesCoverScheduleInOrder ==
    pc \notin {"season", "scheduled"} =>
        /\ 3 * Len(series_schedule) = Len(schedule)
        /\ \A i \in 1..Len(series_schedule) :
              /\ Len(series_schedule[i]) = 3
              /\ \A j \in 1..3 : series_schedule[i][j] = schedule[3 * (i - 1) + j]
        /\ Len(results) = IF pc = "series" THEN 3 * (series_num - 1) + game_num
                          ELSE 3 * (series_num - 1) + game_num - 1
        /\ Len(results) <= Len(schedule)
        /\ \A k \in 1..Len(results) :
              /\ results[k].home_team = schedule[k][1]
              /\ results[k].away_team = schedule[k][2]
        /\ (pc = "series" /\ ~HasNextGame) => Len(results) = Len(schedule)

\* the end of the regular season of NumTeams teams on a shuffled schedule:
\* every scheduled game has its result
C26_Witness ==
    /\ pc = "series"
    /\ ~HasNextGame
    /\ Len(teams) = NumTeams
    /\ schedule # round_robin(teams)
    /\ Len(series_schedule) = Len(schedule) \div 3
    /\ Len(results) = Len(schedule)
    /\ Len(results) > 0

\* C28: the batting lineups built at game setup consist of distinct players
\* of the team's active roster and have between 3 and 5 members, whatever
\* active roster the team has
C28_LineupsHaveThreeToFive ==
    pc = "top" =>
        /\ home_lineup \subseteq RosterOf(home_team)
        /\ away_lineup \subseteq RosterOf(away_team)
        /\ validate_lineup(Cardinality(home_lineup))
        /\ validate_lineup(Cardinality(away_lineup))

\* C19: a season in which some team has an empty active roster runs on
\* without a hard failure.  Pitcher selection, lineup construction and the
\* half-inning fall back on defined values, so no step of the season raises
\* an error
C19_EmptyRosterRunsOn ==
    (\E t \in League : RosterOf(t) = {}) => pc # "ValueError"

\* ========================================================================
\* Properties of the season and its playoffs (SpecSeason)
\* ========================================================================
\* C10: when simulate_full_season returns, the champion of the dict it
\* returns is the team that won the best-of-7 championship series.
C10_ChampionWonTheFinal ==
    pc = "season_done" => season_result.champion = champion

\* the regular-season records of the teams
regularRecords == <<wins, losses, ties, team_runs_scored, team_runs_allowed>>

\* C12: no step of play_playoffs or play_series changes a team's wins,
\* losses, ties, runs_scored or runs_allowed, nor its roster: at team level
\* the playoffs write playoff_wins and playoff_losses only.
C12_PlayoffsKeepRegularRecords ==
    [][(caller = "play_series" /\ pc \in {"series_game", "pitchers_set", "top", "game_returned"})
          => UNCHANGED <<regularRecords, active_roster>>]_vars

\* the playoffs are over, playoff games were won, and the league has
\* regular-season wins and runs that they could have changed
C12_Witness ==
    /\ pc = "playoffs_done"
    /\ champion # None
    /\ \E t \in Teams : playoff_wins[t] > 0 /\ playoff_losses[t] > 0
    /\ \E t \in Teams : wins[t] > 0 /\ team_runs_scored[t] > 0

\* ceil((N+1)/2)
MajorityOf(N) == (N + 2) \div 2

\* a step in which play_series returns its winner to play_playoffs
SeriesReturns ==
    /\ pc = "series_game"
    /\ Len(final_teams') > Len(final_teams) \/ pc' = "playoffs_done"

\* the team that step returns
ReturnedTeam ==
    IF series_name = "Semifinal" THEN final_teams'[Len(final_teams')] ELSE champion'

\* C13: a best-of-N series is played while both teams have fewer than
\* ceil((N+1)/2) wins and ends as soon as one team has that many: the team
\* returned has exactly that many wins, the other strictly fewer, and the
\* series has lasted at least ceil((N+1)/2) and at most N games.
C13_SeriesEndsAtMajority ==
    /\ [](pc \in {"series_game", "pitchers_set", "top", "game_returned"} /\ caller = "play_series"
            => /\ team1_wins <= MajorityOf(best_of)
               /\ team2_wins <= MajorityOf(best_of)
               /\ ~(team1_wins = MajorityOf(best_of) /\ team2_wins = MajorityOf(best_of))
               /\ team1_wins + team2_wins <= best_of)
    /\ [][((pc = "series_game" /\ pc' = "pitchers_set")
               => (team1_wins < MajorityOf(best_of) /\ team2_wins < MajorityOf(best_of)))
           /\ (SeriesReturns
               => LET w == ReturnedTeam
                      ww == IF w = team1 THEN team1_wins ELSE team2_wins
                      lw == IF w = team1 THEN team2_wins ELSE team1_wins
                  IN  /\ w \in {team1, team2}
                      /\ ww = MajorityOf(best_of)
                      /\ lw < ww
                      /\ series_game_num - 1 = ww + lw
                      /\ ww + lw >= MajorityOf(best_of)
                      /\ ww + lw <= best_of)]_vars

\* a championship series that went to its seventh game has been returned
C13_Witness ==
    /\ pc = "playoffs_done"
    /\ champion # None
    /\ best_of = 7
    /\ team1_wins + team2_wins = 7

\* C22: in playoff mode the pitcher selected for either team is a player of
\* its active roster with the maximum velocity + control, whatever the usage
\* counters of the season hold, and no step of the playoffs changes
\* series_pitcher_usage
C22_PlayoffsStartTheBest ==
    /\ [][(pc = "series_game" /\ pc' = "pitchers_set")
             => /\ current_pitcher_home' \in RosterOf(home_team')
                /\ \A q \in RosterOf(home_team') : skill(current_pitcher_home') >= skill(q)
                /\ current_pitcher_away' \in RosterOf(away_team')
                /\ \A q \in RosterOf(away_team') : skill(current_pitcher_away') >= skill(q)]_vars
    /\ [][caller = "play_series" => UNCHANGED series_pitcher_usage]_vars

\* the fifth game of the championship series: its home pitcher has starts
\* recorded in a series of the regular season, has at least seven starts
\* already and is selected again
C22_Witness ==
    /\ pc = "pitchers_set"
    /\ caller = "play_series"
    /\ series_name = "Championship"
    /\ series_game_num = 5
    /\ \E i \in 1..Len(series_pitcher_usage) :
          series_pitcher_usage[i][current_pitcher_home] >= 1
    /\ pitching_stats[current_pitcher_home].gs >= 4 + 3

\* C27: a playoff game whose final scores are equal counts as a win of that
\* game's home team and is not replayed: every playoff game adds exactly one
\* win to exactly one team's series tally, one playoff_wins to that team and
\* one playoff_losses to the other, and the series moves on to its next game
C27_PlayoffGameHasOneWinner ==
    [][(pc = "game_returned" /\ caller = "play_series" /\ pc' # pc)
          => \E w \in {home_team, away_team} :
               \E l \in {home_team, away_team} \ {w} :
                 /\ winner' = w
                 /\ home_score = away_score => w = home_team
                 /\ home_score > away_score => w = home_team
                 /\ away_score > home_score => w = away_team
                 /\ team1_wins' = IF w = team1 THEN team1_wins + 1 ELSE team1_wins
                 /\ team2_wins' = IF w = team2 THEN team2_wins + 1 ELSE team2_wins
                 /\ {w, l} = {team1, team2}
                 /\ playoff_wins' = [playoff_wins EXCEPT ![w] = @ + 1]
                 /\ playoff_losses' = [playoff_losses EXCEPT ![l] = @ + 1]
                 /\ series_game_num' = series_game_num + 1]_vars

\* a tied game of a playoff series has been counted for its home team, the
\* second team of the series, and the series goes on
C27_Witness ==
    /\ pc = "series_game"
    /\ caller = "play_series"
    /\ series_game_num > 1
    /\ home_score = away_score
    /\ home_score > 0
    /\ winner = home_team
    /\ home_team = team2
    /\ team2_wins >= 1
    /\ playoff_losses[away_team] >= 1

\* C20: a season on zero teams fails fast.  It is rejected before any
\* schedule is generated and before any game or playoff is played, and it
\* returns no result: the run does not get past the entry of play_season
C20_ZeroTeamsFailFast ==
    Len(teams) = 0 => pc = "season"

RECURSIVE total(_, _)
total(record, S) ==
    IF S = {} THEN 0
    ELSE LET t == CHOOSE x \in S : TRUE
         IN  record[t] + total(record, S \ {t})

\* the loops of play_season have played every series
regular_season_played == pc = "series" /\ caller = "play_season" /\ ~HasNextGame

\* C39: from zeroed records, after the regular season of play_season with N
\* teams the wins of all teams add up to the losses of all teams, and every
\* team's wins + losses + ties is the 3*(N-1) games it was scheduled to play.
C39_RecordsAddUp ==
    regular_season_played =>
        /\ total(wins, League) = total(losses, League)
        /\ \A t \in League :
              wins[t] + losses[t] + ties[t] = games_per_pair * (Len(teams) - 1)

\* a full league has played its regular season with decided and tied games
C39_Witness ==
    /\ regular_season_played
    /\ Len(teams) = NumTeams
    /\ \E t \in League : wins[t] > 0 /\ ties[t] > 0
    /\ \E t \in League : losses[t] > 0

\* ========================================================================
\* Properties of the end of a season (SpecCareer)
\* ========================================================================
\* the hits of the archived season lines, added up
RECURSIVE archived_hits(_)
archived_hits(S) ==
    IF S = {} THEN 0
    ELSE LET s == CHOOSE x \in S : TRUE
         IN  season_batting[s].h + archived_hits(S \ {s})

\* C36: after any sequence of complete_season and reset_season_stats calls,
\* also when a season number is completed more than once, a career total
\* equals the sum of that counter over the archived season lines.
C36_CareerTotalsMatchArchive ==
    career_batting.h = archived_hits(DOMAIN season_batting)

\* C38: progress_to_next_season leaves every team with wins, losses and ties
\* of 0 and with playoff_wins and playoff_losses of 0, whatever the previous
\* season's results were.
C38_NextSeasonStartsCleared ==
    [][current_season' = current_season + 1 =>
          \A t \in Teams : /\ wins'[t] = 0
                           /\ losses'[t] = 0
                           /\ ties'[t] = 0
                           /\ playoff_wins'[t] = 0
                           /\ playoff_losses'[t] = 0]_vars

\* ========================================================================
\* Properties of the counters of update_stats (SpecStats)
\* ========================================================================
\* C40: from zeroed statistics, after any sequence of at-bats the batter has
\* pa = ab + bb + hbp, h <= ab, k <= ab and doubles + triples + hr <= h, and
\* the pitcher has pt = h + bb + hbp + st.
C40_CountersAgree ==
    /\ batter_line.pa = batter_line.ab + batter_line.bb + batter_line.hbp
    /\ batter_line.h <= batter_line.ab
    /\ batter_line.k <= batter_line.ab
    /\ batter_line.doubles + batter_line.triples + batter_line.hr <= batter_line.h
    /\ pitcher_line.pt = pitcher_line.h + pitcher_line.bb + pitcher_line.hbp + pitcher_line.st

\* the batter has walked, struck out, singled and doubled
C40_Witness ==
    /\ batter_line.bb > 0
    /\ batter_line.k > 0
    /\ batter_line.doubles > 0
    /\ batter_line.h > batter_line.doubles
    /\ pitcher_line.st > 0

====
